---- MODULE Spec2Model ----
(***************************************************************************)
(* Model of the code-exploration pipeline of codedevour:                   *)
(*   server/visualizer/parser.py              (CodeParser)                 *)
(*   server/visualizer/dependency_analyzer.py (DependencyAnalyzer)         *)
(*   server/visualizer/cache_manager.py       (CacheManager)               *)
(*   server/routes/visualizer.py              (scan_project and friends)   *)
(* Text values (paths, module names) are TLA+ strings; the Python string   *)
(* and os.path operations the code uses are defined on them below.         *)
(***************************************************************************)
EXTENDS Integers, Sequences, FiniteSets, TLC

(***************************************************************************)
(* Python str operations                                                   *)
(***************************************************************************)
\* Python's None (paths are never this text)
None == "<None>"

\* s[i] as a one-character string (1-based)
CharAt(s, i) == SubSeq(s, i, i)

\* s[n:]  (0-based n, as in Python)
DropFirst(s, n) == SubSeq(s, n + 1, Len(s))

\* str.startswith
StartsWith(s, p) == Len(s) >= Len(p) /\ SubSeq(s, 1, Len(p)) = p

\* str.endswith
EndsWith(s, p) == Len(s) >= Len(p) /\ SubSeq(s, Len(s) - Len(p) + 1, Len(s)) = p

\* str.replace(old, new), old not empty
RECURSIVE Replace(_, _, _)
Replace(s, old, new) ==
    IF Len(s) = 0 THEN ""
    ELSE IF StartsWith(s, old)
         THEN new \o Replace(DropFirst(s, Len(old)), old, new)
         ELSE CharAt(s, 1) \o Replace(DropFirst(s, 1), old, new)

\* str.find(c) + 1 for a one-character c: 0 when absent
Find(s, c) ==
    LET hits == {i \in 1..Len(s) : CharAt(s, i) = c}
    IN  IF hits = {} THEN 0 ELSE CHOOSE i \in hits : \A j \in hits : i <= j

\* str.rfind(c) + 1 for a one-character c: 0 when absent
RFind(s, c) ==
    LET hits == {i \in 1..Len(s) : CharAt(s, i) = c}
    IN  IF hits = {} THEN 0 ELSE CHOOSE i \in hits : \A j \in hits : i >= j

\* str.split(c) for a one-character c
RECURSIVE Split(_, _)
Split(s, c) ==
    LET i == Find(s, c)
    IN  IF i = 0 THEN <<s>>
        ELSE <<SubSeq(s, 1, i - 1)>> \o Split(DropFirst(s, i), c)

\* c.join(parts)
RECURSIVE Join(_, _)
Join(parts, c) ==
    IF Len(parts) = 0 THEN ""
    ELSE IF Len(parts) = 1 THEN parts[1]
    ELSE parts[1] \o c \o Join(Tail(parts), c)

\* list[:n] for n >= 0
Take(xs, n) == SubSeq(xs, 1, IF n < Len(xs) THEN n ELSE Len(xs))

\* list[:-k] in Python: k = 0 gives list[:0], the empty list
SliceToMinus(xs, k) ==
    IF k = 0 THEN <<>>
    ELSE IF k >= Len(xs) THEN <<>> ELSE SubSeq(xs, 1, Len(xs) - k)

\* the elements of a sequence
Range(xs) == {xs[i] : i \in 1..Len(xs)}

(***************************************************************************)
(* os.path (POSIX)                                                         *)
(***************************************************************************)
\* os.sep
Sep == "/"

\* os.path.join(a, b)
PathJoin(a, b) ==
    IF StartsWith(b, Sep) THEN b
    ELSE IF a = "" \/ EndsWith(a, Sep) THEN a \o b
    ELSE a \o Sep \o b

\* os.path.join(a, b, c)
PathJoin3(a, b, c) == PathJoin(PathJoin(a, b), c)

\* os.path.join(root, *parts)
RECURSIVE PathJoinAll(_, _)
PathJoinAll(a, parts) ==
    IF Len(parts) = 0 THEN a ELSE PathJoinAll(PathJoin(a, parts[1]), Tail(parts))

\* str.rstrip('/')
RECURSIVE RStripSep(_)
RStripSep(s) == IF EndsWith(s, Sep) THEN RStripSep(SubSeq(s, 1, Len(s) - 1)) ELSE s

\* head, or head without its trailing separators when that leaves something
StripHead(head, stripped) == IF stripped = "" THEN head ELSE stripped

\* os.path.dirname
Dirname(p) == StripHead(SubSeq(p, 1, RFind(p, Sep)), RStripSep(SubSeq(p, 1, RFind(p, Sep))))

\* os.path.basename
Basename(p) == DropFirst(p, RFind(p, Sep))

\* os.path.splitext(p)[1], given the places of the last separator and dot: the
\* extension starts at the last dot of the file name unless only dots precede it
SplitExtAt(p, sepIndex, dotIndex) ==
    IF dotIndex > sepIndex
       /\ \E i \in (sepIndex + 1)..(dotIndex - 1) : CharAt(p, i) # "."
    THEN DropFirst(p, dotIndex - 1)
    ELSE ""

\* os.path.splitext(p)[1]
SplitExt(p) == SplitExtAt(p, RFind(p, Sep), RFind(p, "."))

\* the component stack of normpath: '' and '.' are dropped, '..' pops
RECURSIVE NormComps(_, _)
NormComps(comps, acc) ==
    IF Len(comps) = 0 THEN acc
    ELSE LET c == comps[1]
         IN  IF c = "" \/ c = "." THEN NormComps(Tail(comps), acc)
             ELSE IF c = ".."
                  THEN NormComps(Tail(comps), SliceToMinus(acc, IF Len(acc) = 0 THEN 0 ELSE 1))
                  ELSE NormComps(Tail(comps), Append(acc, c))

\* os.path.abspath of an absolute path (= os.path.normpath)
Abspath(p) == Sep \o Join(NormComps(Split(p, Sep), <<>>), Sep)

\* the non-empty components of a path
PathComps(p) == SelectSeq(Split(p, Sep), LAMBDA c : c # "")

\* length of the common prefix of two component lists
RECURSIVE CommonLen(_, _)
CommonLen(xs, ys) ==
    IF Len(xs) = 0 \/ Len(ys) = 0 \/ xs[1] # ys[1] THEN 0
    ELSE 1 + CommonLen(Tail(xs), Tail(ys))

\* the relative path of component list pl from component list sl, which share
\* their first i components
RelFrom(sl, pl, i) ==
    IF Len(sl) = i /\ Len(pl) = i THEN "."
    ELSE Join([k \in 1..(Len(sl) - i) |-> ".."] \o SubSeq(pl, i + 1, Len(pl)), Sep)

RelBetween(sl, pl) == RelFrom(sl, pl, CommonLen(sl, pl))

\* os.path.relpath(path, start), both absolute
Relpath(path, start) == RelBetween(PathComps(Abspath(start)), PathComps(Abspath(path)))

(***************************************************************************)
(* Source files.  A file on disk is its path's content: whether it decodes *)
(* and parses under the grammar its extension selects (ok), and the        *)
(* statements of its syntax tree (body).  Statements carry the fields the  *)
(* extractor reads; line numbers, parameters and decorators are left out.  *)
(***************************************************************************)
\* ast.FunctionDef / ast.AsyncFunctionDef: calls are the names called in its
\* own body, body the definitions nested in it
Def(name, async, calls, body) ==
    [t |-> "def", name |-> name, async |-> async, calls |-> calls,
     body |-> body, module |-> "", level |-> 0, items |-> <<>>]

\* ast.ClassDef
Class(name, body) ==
    [t |-> "class", name |-> name, async |-> FALSE, calls |-> <<>>,
     body |-> body, module |-> "", level |-> 0, items |-> <<>>]

\* ast.Import: `import m1, m2`
Import(modules) ==
    [t |-> "import", name |-> "", async |-> FALSE, calls |-> <<>>,
     body |-> <<>>, module |-> "", level |-> 0, items |-> modules]

\* ast.ImportFrom: `from <level dots><module> import items`; module is None
\* for `from . import x`.  Also an ES `import items from 'module'` (level 0).
ImportFrom(module, level, items) ==
    [t |-> "from", name |-> "", async |-> FALSE, calls |-> <<>>,
     body |-> <<>>, module |-> module, level |-> level, items |-> items]

\* a file that decodes and parses
Source(body) == [ok |-> TRUE, body |-> body]

\* a file that does not (binary content, decode failure, syntax error)
Unparsable == [ok |-> FALSE, body |-> <<>>]

(***************************************************************************)
(* CodeParser (server/visualizer/parser.py)                                *)
(***************************************************************************)
supported_extensions ==
    {".py", ".js", ".jsx", ".ts", ".tsx", ".java", ".c", ".h", ".cpp", ".hpp",
     ".cc", ".cxx", ".go", ".rs", ".php", ".rb", ".cs", ".swift", ".kt", ".kts"}

is_supported(filepath) == SplitExt(filepath) \in supported_extensions

\* ast.walk: breadth-first over the tree; each entry remembers whether the
\* node sits directly in a class body (what _is_method tests by identity)
RECURSIVE AstWalk(_)
AstWalk(queue) ==
    IF Len(queue) = 0 THEN <<>>
    ELSE LET e == Head(queue)
             kids == [i \in 1..Len(e.node.body) |->
                        [node |-> e.node.body[i], in_class |-> e.node.t = "class"]]
         IN  <<e>> \o AstWalk(Tail(queue) \o kids)

\* ast.walk(tree) for a module body
WalkModule(body) ==
    AstWalk([i \in 1..Len(body) |-> [node |-> body[i], in_class |-> FALSE]])

\* list(set(calls)): the distinct names, in the iteration order of a set of
\* str, which the interpreter's hash seed fixes for one run of the program
SetToList(names, order) == SelectSeq(order, LAMBDA n : n \in names)

\* every name called inside a node, nested definitions included
RECURSIVE CallsIn(_)
CallsIn(nodes) ==
    IF Len(nodes) = 0 THEN {}
    ELSE Range(nodes[1].calls) \cup CallsIn(nodes[1].body) \cup CallsIn(Tail(nodes))

_extract_function_calls(node, order) == SetToList(CallsIn(<<node>>), order)

_is_method(entry) == entry.in_class

\* the record of each ast.FunctionDef of the walk that is not a method
FunctionInfos(defs, order) ==
    [i \in 1..Len(defs) |->
        [name |-> defs[i].node.name,
         calls |-> _extract_function_calls(defs[i].node, order),
         is_async |-> FALSE]]

_extract_functions(body, order) ==
    FunctionInfos(SelectSeq(WalkModule(body), LAMBDA e :
                      e.node.t = "def" /\ ~e.node.async /\ ~_is_method(e)),
                  order)

\* the record of each FunctionDef / AsyncFunctionDef of a class body
MethodInfos(defs, order) ==
    [i \in 1..Len(defs) |->
        [name |-> defs[i].name,
         calls |-> _extract_function_calls(defs[i], order),
         is_async |-> defs[i].async]]

_extract_methods(class_node, order) ==
    MethodInfos(SelectSeq(class_node.body, LAMBDA n : n.t = "def"), order)

ClassInfos(cls, order) ==
    [i \in 1..Len(cls) |->
        [name |-> cls[i].node.name,
         methods |-> _extract_methods(cls[i].node, order)]]

_extract_classes(body, order) ==
    ClassInfos(SelectSeq(WalkModule(body), LAMBDA e : e.node.t = "class"), order)

\* the import records of one statement
ImportsOf(node) ==
    IF node.t = "import"
    THEN [i \in 1..Len(node.items) |-> [module |-> node.items[i], items |-> <<>>]]
    ELSE IF node.t = "from"
    THEN <<[module |-> IF node.module = None THEN "" ELSE node.module,
            items |-> node.items]>>
    ELSE <<>>

RECURSIVE FlattenImports(_)
FlattenImports(walk) ==
    IF Len(walk) = 0 THEN <<>>
    ELSE ImportsOf(walk[1].node) \o FlattenImports(Tail(walk))

_extract_imports(body) == FlattenImports(WalkModule(body))

\* the None a parser returns in place of a record
NoRecord ==
    [filepath |-> None, language |-> None, functions |-> <<>>, classes |-> <<>>,
     imports |-> <<>>]

\* _parse_python_file / _parse_js_ts_file: the record, or None on any failure
\* (the file does not decode, or does not parse)
ParseSource(filepath, content, language, order) ==
    IF ~content.ok THEN NoRecord
    ELSE [filepath |-> filepath,
          language |-> language,
          functions |-> _extract_functions(content.body, order),
          classes |-> _extract_classes(content.body, order),
          imports |-> _extract_imports(content.body)]

\* the 'language' of the record, by extension
LanguageOf(ext) ==
    IF ext = ".py" THEN "python"
    ELSE IF ext \in {".ts", ".tsx"} THEN "typescript" ELSE "javascript"

\* parse_file, for the extensions of the grammar-based parsers
ParseByExt(filepath, ext, content, order) ==
    IF ext \notin supported_extensions THEN NoRecord
    ELSE IF ext \in {".py", ".js", ".jsx", ".ts", ".tsx"}
         THEN ParseSource(filepath, content, LanguageOf(ext), order)
         ELSE NoRecord

parse_file(filepath, content, order) ==
    ParseByExt(filepath, SplitExt(filepath), content, order)

(***************************************************************************)
(* DependencyAnalyzer (server/visualizer/dependency_analyzer.py)           *)
(***************************************************************************)
\* self.project_root: the absolute path of the scanned tree
project_root == Abspath("/r")

\* an exception leaving a function, in place of its return value
Raise == "<raise>"

\* an unassigned local variable
Unbound == "<unbound>"

\* a dict with no key, and dict[k] = v
EmptyMap == [k \in {} |-> ""]
MapPut(m, k, v) == [q \in DOMAIN m \cup {k} |-> IF q = k THEN v ELSE m[q]]

\* the keys of self.parsed_files, in insertion order
Filepaths(parsed) == [i \in 1..Len(parsed) |-> parsed[i].filepath]

\* add_parsed_file: self.parsed_files[filepath] = file_data (a dict keeps the
\* position of a key it already holds)
add_parsed_file(parsed, file_data) ==
    IF \E i \in 1..Len(parsed) : parsed[i].filepath = file_data.filepath
    THEN [i \in 1..Len(parsed) |->
            IF parsed[i].filepath = file_data.filepath THEN file_data ELSE parsed[i]]
    ELSE Append(parsed, file_data)

\* the smallest element of a non-empty set of numbers, and the largest
Min(S) == CHOOSE m \in S : \A n \in S : m <= n
Max(S) == CHOOSE m \in S : \A n \in S : m >= n

\* the extensions _build_file_module_map removes, in the order it tries them
module_exts == <<".py", ".js", ".jsx", ".ts", ".tsx">>

\* rel_path without the extension at place i of module_exts
CutExt(rel, hit) ==
    IF hit = {} THEN rel
    ELSE SubSeq(rel, 1, Len(rel) - Len(module_exts[Min(hit)]))

\* rel_path with the first matching extension of the list removed
StripModuleExt(rel) ==
    CutExt(rel, {i \in 1..Len(module_exts) : EndsWith(rel, module_exts[i])})

\* module_map[partial_module] = init_file, when the name is not yet mapped and
\* the package has an __init__.py on disk
AddPackage(map, partial_module, init_file, on_disk) ==
    IF partial_module \notin DOMAIN map /\ init_file \in on_disk
    THEN MapPut(map, partial_module, init_file)
    ELSE map

\* the intermediate package names parts[:i], i = 1 .. len(parts) - 1
RECURSIVE AddPackages(_, _, _, _)
AddPackages(map, parts, i, on_disk) ==
    IF i >= Len(parts) THEN map
    ELSE AddPackages(
             AddPackage(map, Join(Take(parts, i), "."),
                        PathJoin(PathJoinAll(project_root, Take(parts, i)), "__init__.py"),
                        on_disk),
             parts, i + 1, on_disk)

\* the module name of a file: its path from the root, extension removed,
\* separators replaced by dots
ModuleName(filepath) ==
    Replace(StripModuleExt(Replace(Relpath(filepath, project_root), "\\", "/")), "/", ".")

\* one round of the loop of _build_file_module_map
AddModule(map, filepath, module_name, on_disk) ==
    AddPackages(MapPut(map, module_name, filepath), Split(module_name, "."), 1, on_disk)

RECURSIVE ModuleMapFrom(_, _, _)
ModuleMapFrom(map, paths, on_disk) ==
    IF Len(paths) = 0 THEN map
    ELSE ModuleMapFrom(AddModule(map, paths[1], ModuleName(paths[1]), on_disk),
                       Tail(paths), on_disk)

\* _build_file_module_map
_build_file_module_map(parsed, on_disk) ==
    ModuleMapFrom(EmptyMap, Filepaths(parsed), on_disk)

external_prefixes ==
    <<"os", "sys", "json", "re", "ast", "time", "datetime", "typing",
      "flask", "esprima", "pathlib", "collections", "hashlib",
      "psutil", "tiktoken", "werkzeug", "jinja2", "click",
      "react", "vue", "angular", "axios", "lodash", "moment",
      "@angular", "@types", "node:", "fs", "path", "http", "https">>

\* `any(module.startswith(prefix) for prefix in external_prefixes)`
IsExternal(module) ==
    \E i \in 1..Len(external_prefixes) : StartsWith(module, external_prefixes[i])

\* the candidate at the first of the places hit, None when there is none
FirstAt(cands, hit) == IF hit = {} THEN None ELSE cands[Min(hit)]

\* the first candidate that is a file on disk and a key of parsed_files
FirstParsed(cands, parsed_paths, on_disk) ==
    FirstAt(cands, {i \in 1..Len(cands) :
                       cands[i] \in on_disk /\ cands[i] \in parsed_paths})

\* path + ext for each ext, then path/index + ext for each ext
ExtCandidates(path, exts) ==
    [i \in 1..Len(exts) |-> path \o exts[i]]
    \o [i \in 1..Len(exts) |-> PathJoin(path, "index" \o exts[i])]

\* a result if there is one, else the next step's
OrElse(first, second) == IF first # None THEN first ELSE second

\* potential_path for the last template of an alias whose prefix (the alias
\* without '/*') starts the module string; unchanged otherwise
PathUnderAlias(module, alias_prefix, templates, potential_path) ==
    IF StartsWith(module, alias_prefix) /\ Len(templates) > 0
    THEN PathJoin3(project_root, Replace(templates[Len(templates)], "/*", ""),
                   Replace(DropFirst(module, Len(alias_prefix)), "/", Sep))
    ELSE potential_path

\* the value potential_path has after the inner loop over one alias's templates
PotentialPath(module, alias, potential_path) ==
    PathUnderAlias(module, Replace(alias.alias, "/*", ""), alias.paths, potential_path)

\* step 1, path aliases: a path, Raise (potential_path read before any
\* assignment), or None to go on with step 2
RECURSIVE ResolveAlias(_, _, _, _, _)
TryAlias(module, aliases, pp, parsed_paths, on_disk) ==
    IF pp = Unbound THEN Raise
    ELSE OrElse(FirstParsed(ExtCandidates(pp, <<".js", ".jsx", ".ts", ".tsx", ".json">>),
                            parsed_paths, on_disk),
                ResolveAlias(module, Tail(aliases), pp, parsed_paths, on_disk))

ResolveAlias(module, aliases, potential_path, parsed_paths, on_disk) ==
    IF Len(aliases) = 0 THEN None
    ELSE TryAlias(module, aliases, PotentialPath(module, aliases[1], potential_path),
                  parsed_paths, on_disk)

\* step 2, './' and '../' imports
ResolveRelativeJs(module, current_file, parsed_paths, on_disk) ==
    IF StartsWith(module, "./") \/ StartsWith(module, "../")
    THEN FirstParsed(
             ExtCandidates(Abspath(PathJoin(Dirname(current_file), module)),
                           <<"", ".js", ".jsx", ".ts", ".tsx", ".json">>),
             parsed_paths, on_disk)
    ELSE None

\* step 3a, the module string as a key of the module map
ResolveDirect(module, module_map) ==
    IF module \in DOMAIN module_map THEN module_map[module] ELSE None

\* the number of leading dots of a module string
RECURSIVE LeadingDots(_)
LeadingDots(module) ==
    IF StartsWith(module, ".") THEN 1 + LeadingDots(DropFirst(module, 1)) ELSE 0

\* final_module: base_parts, plus the rest of the module string when not empty
FinalModule(base_parts, rest_of_module) ==
    IF rest_of_module # ""
    THEN Join(Append(base_parts, rest_of_module), ".")
    ELSE Join(base_parts, ".")

\* package_parts[:-(level - 1)] joined with module[level:]
DottedModule(module, package_parts, level) ==
    FinalModule(SliceToMinus(package_parts, level - 1), DropFirst(module, level))

\* step 3b, leading-dot module syntax
ResolveDotted(module, current_file, module_map) ==
    IF ~StartsWith(module, ".") THEN None
    ELSE ResolveDirect(
             DottedModule(module,
                 Split(Replace(Relpath(Dirname(current_file), project_root), Sep, "."), "."),
                 LeadingDots(module)),
             module_map)

\* step 3c, the module string as a path from the root
ResolveFromRoot(module, parsed_paths, on_disk) ==
    FirstParsed(
        ExtCandidates(PathJoin(project_root, Replace(module, "/", Sep)),
                      <<".js", ".jsx", ".ts", ".tsx", ".py", ".json">>),
        parsed_paths, on_disk)

\* _resolve_import: a file path, None, or Raise
_resolve_import(module, current_file, module_map, aliases, parsed_paths, on_disk) ==
    IF IsExternal(module) THEN None
    ELSE OrElse(ResolveAlias(module, aliases, Unbound, parsed_paths, on_disk),
         OrElse(ResolveRelativeJs(module, current_file, parsed_paths, on_disk),
         OrElse(ResolveDirect(module, module_map),
         OrElse(ResolveDotted(module, current_file, module_map),
                ResolveFromRoot(module, parsed_paths, on_disk)))))

\* every (importing file, import) pair, in the order build_file_graph visits them
RECURSIVE ImportSites(_)
ImportSites(parsed) ==
    IF Len(parsed) = 0 THEN <<>>
    ELSE [j \in 1..Len(parsed[1].imports) |->
             [filepath |-> parsed[1].filepath, imp |-> parsed[1].imports[j]]]
         \o ImportSites(Tail(parsed))

\* in_degree / out_degree of _calculate_centrality (a defaultdict(int))
InDegree(edges, id) == Cardinality({k \in 1..Len(edges) : edges[k].target = id})
OutDegree(edges, id) == Cardinality({k \in 1..Len(edges) : edges[k].source = id})

\* max(in_degree.values(), default=0): no edge, no degree
MaxInOrZero(edges) ==
    IF Len(edges) > 0
    THEN Max({InDegree(edges, edges[k].target) : k \in 1..Len(edges)}) ELSE 0

\* max(in_degree.values()) if in_degree else 1, and the same for out_degree
MaxIn(edges) ==
    IF Len(edges) > 0
    THEN Max({InDegree(edges, edges[k].target) : k \in 1..Len(edges)}) ELSE 1
MaxOut(edges) ==
    IF Len(edges) > 0
    THEN Max({OutDegree(edges, edges[k].source) : k \in 1..Len(edges)}) ELSE 1

\* the node with its degrees and its score 0.7 * in / max_in + 0.3 * out /
\* max_out, kept as the exact fraction cent_num / cent_den
Scored(node, in_deg, out_deg, max_in, max_out) ==
    [id |-> node.id,
     type |-> node.type,
     language |-> node.language,
     functions_count |-> node.functions_count,
     classes_count |-> node.classes_count,
     filepath |-> node.filepath,
     in_degree |-> in_deg,
     out_degree |-> out_deg,
     cent_num |-> 7 * in_deg * max_out + 3 * out_deg * max_in,
     cent_den |-> 10 * max_in * max_out]

\* _calculate_centrality: in_degree, out_degree and centrality of every node
_calculate_centrality(nodes, edges) ==
    [i \in 1..Len(nodes) |->
        Scored(nodes[i], InDegree(edges, nodes[i].id), OutDegree(edges, nodes[i].id),
               MaxIn(edges), MaxOut(edges))]

\* the graph of a new analyzer
EmptyGraph == [nodes |-> <<>>, edges |-> <<>>]

\* the node build_file_graph creates for one parsed file
FileNode(data) ==
    [id |-> Relpath(data.filepath, project_root),
     type |-> "file",
     language |-> data.language,
     functions_count |-> Len(data.functions),
     classes_count |-> Len(data.classes),
     filepath |-> data.filepath]

FileNodes(parsed) == [i \in 1..Len(parsed) |-> FileNode(parsed[i])]

\* the edge of each import whose target is a key of parsed_files
ImportEdges(kept) ==
    [k \in 1..Len(kept) |->
        [source |-> Relpath(kept[k].site.filepath, project_root),
         target |-> Relpath(kept[k].target_file, project_root),
         type |-> "import",
         module |-> kept[k].site.imp.module,
         items |-> kept[k].site.imp.items]]

\* every resolved import kept, parsed target or not
KeptImportsAnyTarget(resolved, parsed_paths) ==
    SelectSeq(resolved, LAMBDA q : q.target_file # None /\ q.target_file # "")

\* `if target_file and target_file in self.parsed_files`
KeptImports(resolved, parsed_paths) ==
    SelectSeq(resolved, LAMBDA q :
        q.target_file # None /\ q.target_file # "" /\ q.target_file \in parsed_paths)

\* build_file_graph left by an exception of _resolve_import
RaisedGraph == [raised |-> TRUE, nodes |-> <<>>, edges |-> <<>>]

\* the graph of nodes and edges, centrality added
GraphOf(nodes, edges) ==
    [raised |-> FALSE, nodes |-> _calculate_centrality(nodes, edges), edges |-> edges]

\* the graph once every import has its _resolve_import result
FileGraphOf(parsed, resolved) ==
    IF \E k \in 1..Len(resolved) : resolved[k].target_file = Raise
    THEN RaisedGraph
    ELSE GraphOf(FileNodes(parsed),
                 ImportEdges(KeptImports(resolved, Range(Filepaths(parsed)))))

\* _resolve_import for every import of every file
ResolveAll(sites, file_to_module, aliases, parsed_paths, on_disk) ==
    [k \in 1..Len(sites) |->
        [site |-> sites[k],
         target_file |-> _resolve_import(sites[k].imp.module, sites[k].filepath,
                             file_to_module, aliases, parsed_paths, on_disk)]]

\* build_file_graph: the graph it returns and stores in self.file_graph, or
\* RaisedGraph
build_file_graph(parsed, aliases, on_disk) ==
    FileGraphOf(parsed,
        ResolveAll(ImportSites(parsed), _build_file_module_map(parsed, on_disk),
                   aliases, Range(Filepaths(parsed)), on_disk))

\* the functions and methods of the parsed files in the order
\* build_function_graph registers them: per file, functions, then the
\* methods of each class
RECURSIVE MethodsOf(_, _)
MethodsOf(rel_path, classes) ==
    IF Len(classes) = 0 THEN <<>>
    ELSE [j \in 1..Len(classes[1].methods) |->
             [file |-> rel_path, short |-> classes[1].methods[j].name,
              name |-> classes[1].name \o "." \o classes[1].methods[j].name,
              type |-> "method", calls |-> classes[1].methods[j].calls]]
         \o MethodsOf(rel_path, Tail(classes))

\* the functions, then the methods, of one file
RegisteredIn(data, rel_path) ==
    [j \in 1..Len(data.functions) |->
        [file |-> rel_path, short |-> data.functions[j].name,
         name |-> data.functions[j].name,
         type |-> "function", calls |-> data.functions[j].calls]]
    \o MethodsOf(rel_path, data.classes)

RECURSIVE Registered(_)
Registered(parsed) ==
    IF Len(parsed) = 0 THEN <<>>
    ELSE RegisteredIn(parsed[1], Relpath(parsed[1].filepath, project_root))
         \o Registered(Tail(parsed))

\* func_map[name]: each registration overwrites the entry of its short name
FuncMapEntry(regs, name) == regs[Max({i \in 1..Len(regs) : regs[i].short = name})]

\* the (function, callee) pairs of the module-level functions, in order
RECURSIVE CallSites(_)
CallSites(regs) ==
    IF Len(regs) = 0 THEN <<>>
    ELSE (IF regs[1].type = "function"
          THEN [j \in 1..Len(regs[1].calls) |->
                   [source_id |-> regs[1].file \o "::" \o regs[1].name,
                    call |-> regs[1].calls[j]]]
          ELSE <<>>)
         \o CallSites(Tail(regs))

\* target_id = f"{target_file}::{target_func['name']}" of func_map[call]
TargetId(entry) == entry.file \o "::" \o entry.short

\* the nodes and edges over the registered functions and methods
FunctionGraphOf(regs, calls) ==
    [nodes |-> [i \in 1..Len(regs) |->
                   [id |-> regs[i].file \o "::" \o regs[i].name,
                    name |-> regs[i].name,
                    type |-> regs[i].type,
                    file |-> regs[i].file]],
     edges |-> [k \in 1..Len(calls) |->
                   [source |-> calls[k].source_id,
                    target |-> TargetId(FuncMapEntry(regs, calls[k].call)),
                    type |-> "call"]]]

\* `if call in func_map`
KnownCalls(regs) ==
    SelectSeq(CallSites(regs), LAMBDA c : \E i \in 1..Len(regs) : regs[i].short = c.call)

\* build_function_graph: the new self.function_graph
FunctionGraphFrom(regs) == FunctionGraphOf(regs, KnownCalls(regs))

build_function_graph(parsed) == FunctionGraphFrom(Registered(parsed))

(***************************************************************************)
(* scan_project's walk (server/routes/visualizer.py), with the filters of   *)
(* server/extractors/TextEXtractor.py                                      *)
(***************************************************************************)
UpperLetters == "ABCDEFGHIJKLMNOPQRSTUVWXYZ"
LowerLetters == "abcdefghijklmnopqrstuvwxyz"

\* the lower-case form of one character, given its place among the capitals
LowerAt(c, place) == IF place > 0 THEN CharAt(LowerLetters, place) ELSE c

\* str.lower()
RECURSIVE Lower(_)
Lower(s) ==
    IF Len(s) = 0 THEN ""
    ELSE LowerAt(CharAt(s, 1), Find(UpperLetters, CharAt(s, 1))) \o Lower(DropFirst(s, 1))

\* `sub in s`
Contains(s, sub) ==
    \E i \in 1..(Len(s) - Len(sub) + 1) : SubSeq(s, i, i + Len(sub) - 1) = sub

\* the extensions the walk lets through to the parser
source_extensions ==
    {".py", ".js", ".ts", ".tsx", ".jsx", ".css", ".scss", ".sass", ".less",
     ".html", ".vue", ".json"}

\* one pattern of is_excluded's loop against a file name and its path from
\* the base folder
ExcludedBy(pattern, pattern_norm, filename, rel_path) ==
    /\ pattern # ""
    /\ \/ pattern = filename
       \/ pattern_norm = rel_path
       \/ Contains(rel_path, pattern_norm)
       \/ Contains(filename, pattern)

\* is_excluded(root, filename, exclude_set, base_folder), base_folder given
is_excluded(root, filename, exclude_set, base_folder) ==
    \E pattern \in exclude_set :
        ExcludedBy(pattern, Replace(pattern, "\\", "/"), filename,
                   Replace(Relpath(PathJoin(root, filename), base_folder), "\\", "/"))

\* one pattern of the just_me loop
MatchedBy(pattern, pattern_norm, file, rel_path) ==
    \/ pattern_norm = rel_path
    \/ Contains(rel_path, pattern_norm)
    \/ pattern = file

\* `if just_me_patterns:` ... `if not file_matches: continue`
FileMatches(filepath, file, just_me_patterns, base_folder) ==
    \/ just_me_patterns = {}
    \/ \E pattern \in just_me_patterns :
        MatchedBy(pattern, Replace(pattern, "\\", "/"), file,
                  Replace(Relpath(filepath, base_folder), "\\", "/"))

\* a file of the walk reaches the parser: its extension is a source
\* extension, no exclude pattern hits it and a just_me pattern, if any, does
ReachesParser(root, file, exclude_patterns, just_me_patterns) ==
    /\ Lower(SplitExt(file)) \in source_extensions
    /\ ~is_excluded(root, file, exclude_patterns, project_root)
    /\ FileMatches(PathJoin(root, file), file, just_me_patterns, project_root)

\* `if parsed:` parsed_files[filepath] = parsed; analyzer.add_parsed_file(parsed)
\* (the route's dict and the analyzer's hold the same keys in the same order)
AddIfParsed(parsed, record) ==
    IF record # NoRecord THEN add_parsed_file(parsed, record) ELSE parsed

\* the body of `for file in files:` for one file of the walk
ScanFile(parsed, filepath, tree, exclude_patterns, just_me_patterns, order) ==
    IF ReachesParser(Dirname(filepath), Basename(filepath), exclude_patterns,
                     just_me_patterns)
    THEN AddIfParsed(parsed, parse_file(filepath, tree[filepath], order))
    ELSE parsed

\* the walk from its i-th file on
RECURSIVE ScanFiles(_, _, _, _, _, _, _)
ScanFiles(parsed, files, i, tree, exclude_patterns, just_me_patterns, order) ==
    IF i > Len(files) THEN parsed
    ELSE ScanFiles(ScanFile(parsed, files[i], tree, exclude_patterns,
                            just_me_patterns, order),
                   files, i + 1, tree, exclude_patterns, just_me_patterns, order)

\* what a fresh scan holds once build_file_graph has returned or raised
ScanResult(parsed, built) ==
    IF built.raised
    THEN [raised |-> TRUE, parsed_files |-> <<>>, file_graph |-> EmptyGraph,
          function_graph |-> EmptyGraph]
    ELSE [raised |-> FALSE, parsed_files |-> parsed,
          file_graph |-> [nodes |-> built.nodes, edges |-> built.edges],
          function_graph |-> build_function_graph(parsed)]

\* the graphs of a parsed-file set
BuildGraphs(parsed, aliases, on_disk) ==
    ScanResult(parsed, build_file_graph(parsed, aliases, on_disk))

\* the fresh scan: the walk, then the graphs
FreshScan(tree, files, exclude_patterns, just_me_patterns, aliases, order) ==
    BuildGraphs(ScanFiles(<<>>, files, 1, tree, exclude_patterns, just_me_patterns, order),
                aliases, DOMAIN tree)

(***************************************************************************)
(* DependencyAnalyzer: the analyses of the built file graph                 *)
(***************************************************************************)
\* the keys of the adjacency dict: the sources of the edges, each once, in
\* the order of its first edge
RECURSIVE SourcesInOrder(_, _, _)
SourcesInOrder(edges, k, seen) ==
    IF k > Len(edges) THEN <<>>
    ELSE IF edges[k].source \in seen THEN SourcesInOrder(edges, k + 1, seen)
    ELSE <<edges[k].source>>
         \o SourcesInOrder(edges, k + 1, seen \cup {edges[k].source})

\* graph[source] once every edge is appended: the targets of the edges of
\* source, in edge order
TargetsOf(edges, source) ==
    [k \in 1..OutDegree(edges, source) |->
        SelectSeq(edges, LAMBDA e : e.source = source)[k].target]

\* the adjacency dict when each edge replaces the list of its source
AdjacencyOfLastTargets(edges) ==
    [keys |-> SourcesInOrder(edges, 1, {}),
     lists |-> [source \in {edges[k].source : k \in 1..Len(edges)} |->
                   <<TargetsOf(edges, source)[OutDegree(edges, source)]>>]]

\* _build_adjacency_list: source -> targets, keys in insertion order
_build_adjacency_list(edges) ==
    [keys |-> SourcesInOrder(edges, 1, {}),
     lists |-> [source \in {edges[k].source : k \in 1..Len(edges)} |->
                   TargetsOf(edges, source)]]

\* graph.get(node, [])
Neighbors(graph, node) ==
    IF node \in DOMAIN graph.lists THEN graph.lists[node] ELSE <<>>

\* visited, rec_stack and cycles before the first dfs
NoSearch == [visited |-> {}, rec_stack |-> {}, cycles |-> <<>>]

\* visited.add(node); rec_stack.add(node)
Enter(st, node) ==
    [st EXCEPT !.visited = @ \cup {node}, !.rec_stack = @ \cup {node}]

\* rec_stack.remove(node)
Leave(st, node) == [st EXCEPT !.rec_stack = @ \ {node}]

\* path.index(x)
Index(path, x) == Min({i \in 1..Len(path) : path[i] = x})

\* the append when the path is not cut at cycle_start
FoundWholePath(st, path, neighbor) ==
    [st EXCEPT !.cycles = Append(@, path \o <<neighbor>>)]

\* cycles.append(path[cycle_start:] + [neighbor])
FoundCycle(st, path, neighbor) ==
    [st EXCEPT !.cycles =
        Append(@, SubSeq(path, Index(path, neighbor), Len(path)) \o <<neighbor>>)]

\* dfs(node, path): path is the caller's copy, st the sets and the list the
\* closure shares
RECURSIVE dfs(_, _, _, _)
RECURSIVE VisitNeighbors(_, _, _, _, _)
VisitNeighbors(graph, neighbors, i, path, st) ==
    IF i > Len(neighbors) THEN st
    ELSE VisitNeighbors(graph, neighbors, i + 1, path,
             IF neighbors[i] \notin st.visited
             THEN dfs(graph, neighbors[i], path, st)
             ELSE IF neighbors[i] \in st.rec_stack
             THEN FoundCycle(st, path, neighbors[i])
             ELSE st)

dfs(graph, node, path, st) ==
    Leave(VisitNeighbors(graph, Neighbors(graph, node), 1, Append(path, node),
                         Enter(st, node)),
          node)

\* the loop over the keys when it ends after the first key
RECURSIVE VisitFirstRoot(_, _, _, _)
VisitFirstRoot(graph, keys, i, st) ==
    IF i > Min({Len(keys), 1}) THEN st
    ELSE VisitFirstRoot(graph, keys, i + 1,
             IF keys[i] \notin st.visited THEN dfs(graph, keys[i], <<>>, st) ELSE st)

\* `for node in graph: if node not in visited: dfs(node, [])`
RECURSIVE VisitRoots(_, _, _, _)
VisitRoots(graph, keys, i, st) ==
    IF i > Len(keys) THEN st
    ELSE VisitRoots(graph, keys, i + 1,
             IF keys[i] \notin st.visited THEN dfs(graph, keys[i], <<>>, st) ELSE st)

\* the search over an adjacency dict
CyclesIn(graph) == VisitRoots(graph, graph.keys, 1, NoSearch).cycles

\* detect_circular_dependencies: the cycles, in the order they are found
detect_circular_dependencies(fg) == CyclesIn(_build_adjacency_list(fg.edges))

\* the ids of the nodes and the targets of the edges of a graph
NodeIdsOf(g) == {g.nodes[i].id : i \in 1..Len(g.nodes)}
TargetsIn(g) == {g.edges[k].target : k \in 1..Len(g.edges)}

\* find_dead_code: the two lists are made from sets, in no order
find_dead_code(fg, fng) ==
    [unused_files |-> NodeIdsOf(fg) \ TargetsIn(fg),
     unused_functions |-> NodeIdsOf(fng) \ TargetsIn(fng)]

(***************************************************************************)
(* json.dump / json.load as the cache manager uses them.  A document is    *)
(* the sequence of the tokens json.dump writes; json.load reads them back  *)
(* with a stack of the containers that are still open.                     *)
(***************************************************************************)
Quote == "\""

DecimalDigits == "0123456789"

\* the decimal text of an int n >= 0
RECURSIVE IntToStr(_)
IntToStr(n) ==
    IF n < 10 THEN CharAt(DecimalDigits, n + 1)
    ELSE IntToStr(n \div 10) \o CharAt(DecimalDigits, (n % 10) + 1)

\* the value of a digit, -1 for any other character
DigitValue(c) == Find(DecimalDigits, c) - 1

RECURSIVE StrToInt(_, _)
StrToInt(s, acc) ==
    IF Len(s) = 0 THEN acc
    ELSE StrToInt(DropFirst(s, 1), 10 * acc + DigitValue(CharAt(s, 1)))

\* the tokens of a str (the texts stored need no escape), an int, a bool
json_str(s) == <<Quote \o s \o Quote>>
json_int(n) == <<IntToStr(n)>>
json_bool(b) == <<IF b THEN "true" ELSE "false">>

\* the encoded items of a container, with the commas between them
RECURSIVE Items(_)
Items(parts) ==
    IF Len(parts) = 0 THEN <<>>
    ELSE IF Len(parts) = 1 THEN parts[1]
    ELSE parts[1] \o <<",">> \o Items(Tail(parts))

json_list(parts) == <<"[">> \o Items(parts) \o <<"]">>

Member(key, value) == json_str(key) \o <<":">> \o value

json_object(members) == <<"{">> \o Items(members) \o <<"}">>

\* a list of str
DumpStrings(xs) == json_list([i \in 1..Len(xs) |-> json_str(xs[i])])

\* the dict of a function or method
DumpFunction(f) ==
    json_object(<<Member("name", json_str(f.name)),
                  Member("calls", DumpStrings(f.calls)),
                  Member("is_async", json_bool(f.is_async))>>)

DumpClass(c) ==
    json_object(<<Member("name", json_str(c.name)),
                  Member("methods",
                         json_list([i \in 1..Len(c.methods) |-> DumpFunction(c.methods[i])]))>>)

DumpImport(imp) ==
    json_object(<<Member("module", json_str(imp.module)),
                  Member("items", DumpStrings(imp.items))>>)

\* the record of one parsed file
DumpFileData(d) ==
    json_object(<<Member("filepath", json_str(d.filepath)),
                  Member("language", json_str(d.language)),
                  Member("functions",
                         json_list([i \in 1..Len(d.functions) |-> DumpFunction(d.functions[i])])),
                  Member("classes",
                         json_list([i \in 1..Len(d.classes) |-> DumpClass(d.classes[i])])),
                  Member("imports",
                         json_list([i \in 1..Len(d.imports) |-> DumpImport(d.imports[i])]))>>)

\* json.dump(parsed_data): filepath -> record, in the order of the dict
DumpParsedFiles(parsed) ==
    json_object([i \in 1..Len(parsed) |-> Member(parsed[i].filepath, DumpFileData(parsed[i]))])

DumpFileNode(n) ==
    json_object(<<Member("id", json_str(n.id)),
                  Member("type", json_str(n.type)),
                  Member("language", json_str(n.language)),
                  Member("functions_count", json_int(n.functions_count)),
                  Member("classes_count", json_int(n.classes_count)),
                  Member("filepath", json_str(n.filepath)),
                  Member("in_degree", json_int(n.in_degree)),
                  Member("out_degree", json_int(n.out_degree)),
                  Member("cent_num", json_int(n.cent_num)),
                  Member("cent_den", json_int(n.cent_den))>>)

DumpImportEdge(e) ==
    json_object(<<Member("source", json_str(e.source)),
                  Member("target", json_str(e.target)),
                  Member("type", json_str(e.type)),
                  Member("module", json_str(e.module)),
                  Member("items", DumpStrings(e.items))>>)

DumpFunctionNode(n) ==
    json_object(<<Member("id", json_str(n.id)),
                  Member("name", json_str(n.name)),
                  Member("type", json_str(n.type)),
                  Member("file", json_str(n.file))>>)

DumpCallEdge(e) ==
    json_object(<<Member("source", json_str(e.source)),
                  Member("target", json_str(e.target)),
                  Member("type", json_str(e.type))>>)

DumpFileGraph(g) ==
    json_object(<<Member("nodes", json_list([i \in 1..Len(g.nodes) |-> DumpFileNode(g.nodes[i])])),
                  Member("edges", json_list([i \in 1..Len(g.edges) |-> DumpImportEdge(g.edges[i])]))>>)

DumpFunctionGraph(g) ==
    json_object(<<Member("nodes", json_list([i \in 1..Len(g.nodes) |-> DumpFunctionNode(g.nodes[i])])),
                  Member("edges", json_list([i \in 1..Len(g.edges) |-> DumpCallEdge(g.edges[i])]))>>)

\* json.dump(graph_data) of the combined graph
DumpGraphData(graph_data) ==
    json_object(<<Member("file_graph", DumpFileGraph(graph_data.file_graph)),
                  Member("function_graph", DumpFunctionGraph(graph_data.function_graph))>>)

\* json.dump(metadata)
DumpMetadata(m) ==
    json_object(<<Member("file_count", json_int(m.file_count)),
                  Member("exclude_patterns_hash", json_str(m.exclude_patterns_hash)),
                  Member("just_me_patterns_hash", json_str(m.just_me_patterns_hash)),
                  Member("last_scan", json_int(m.last_scan)),
                  Member("cache_version", json_str(m.cache_version))>>)

\* the kinds of token
IsString(tok) ==
    Len(tok) >= 2 /\ CharAt(tok, 1) = Quote /\ CharAt(tok, Len(tok)) = Quote
IsNumber(tok) ==
    /\ Len(tok) > 0
    /\ \A i \in 1..Len(tok) : DigitValue(CharAt(tok, i)) >= 0
    /\ Len(tok) > 1 => CharAt(tok, 1) # "0"
IsScalar(tok) == tok \in {"null", "true", "false"} \/ IsString(tok) \/ IsNumber(tok)

\* the Python value of a scalar token
ScalarOf(tok) ==
    IF tok = "null" THEN None
    ELSE IF tok = "true" THEN TRUE
    ELSE IF tok = "false" THEN FALSE
    ELSE IF IsString(tok) THEN SubSeq(tok, 2, Len(tok) - 1)
    ELSE StrToInt(tok, 0)

\* a dict from the members of an object: the last of equal keys stays
AsDict(keys, values) ==
    [k \in Range(keys) |-> values[Max({i \in 1..Len(keys) : keys[i] = k})]]

\* the decoder: the open containers, what may come next, the value read
NewDecoder(ordered) ==
    [ok |-> TRUE, stack |-> <<>>, expect |-> "value", value |-> None,
     ordered |-> ordered]

OpenContainer(d, kind) ==
    [d EXCEPT !.stack = Append(@, [kind |-> kind, keys |-> <<>>, values |-> <<>>,
                                   key |-> ""]),
              !.expect = IF kind = "list" THEN "value_or_close" ELSE "key_or_close"]

\* a complete value goes to the innermost open container, or is the result
PutValue(d, stack, v) ==
    IF Len(stack) = 0
    THEN [d EXCEPT !.stack = stack, !.value = v, !.expect = "end"]
    ELSE [d EXCEPT !.stack = [stack EXCEPT ![Len(stack)] =
                                 [@ EXCEPT !.keys = Append(@, stack[Len(stack)].key),
                                           !.values = Append(@, v)]],
                   !.expect = "sep"]

\* the value of a container that closes; with `ordered`, the outermost
\* object is kept as its values in the order of the document
ClosedValue(d, top) ==
    IF top.kind = "list" THEN top.values
    ELSE IF d.ordered /\ Len(d.stack) = 1 THEN top.values
    ELSE AsDict(top.keys, top.values)

CloseContainer(d) ==
    PutValue(d, SubSeq(d.stack, 1, Len(d.stack) - 1), ClosedValue(d, d.stack[Len(d.stack)]))

DecodeError(d) == [d EXCEPT !.ok = FALSE]

\* one token
DecodeToken(d, tok) ==
    CASE d.expect \in {"value", "value_or_close"} /\ tok = "{" -> OpenContainer(d, "object")
      [] d.expect \in {"value", "value_or_close"} /\ tok = "[" -> OpenContainer(d, "list")
      [] d.expect = "value_or_close" /\ tok = "]" -> CloseContainer(d)
      [] d.expect \in {"value", "value_or_close"} /\ IsScalar(tok) ->
            PutValue(d, d.stack, ScalarOf(tok))
      [] d.expect \in {"key", "key_or_close"} /\ IsString(tok) ->
            [d EXCEPT !.stack[Len(d.stack)].key = ScalarOf(tok), !.expect = "colon"]
      [] d.expect = "key_or_close" /\ tok = "}" -> CloseContainer(d)
      [] d.expect = "colon" /\ tok = ":" -> [d EXCEPT !.expect = "value"]
      [] d.expect = "sep" /\ tok = "," ->
            [d EXCEPT !.expect = IF d.stack[Len(d.stack)].kind = "list"
                                 THEN "value" ELSE "key"]
      [] d.expect = "sep" /\ tok = "]" /\ d.stack[Len(d.stack)].kind = "list" ->
            CloseContainer(d)
      [] d.expect = "sep" /\ tok = "}" /\ d.stack[Len(d.stack)].kind = "object" ->
            CloseContainer(d)
      [] OTHER -> DecodeError(d)

\* the tokens text[lo..hi] in order, by halves (the decoder stops at the
\* first error)
RECURSIVE Decode(_, _, _, _)
Decode(text, lo, hi, d) ==
    IF ~d.ok \/ lo > hi THEN d
    ELSE IF lo = hi THEN DecodeToken(d, text[lo])
    ELSE Decode(text, ((lo + hi) \div 2) + 1, hi,
                Decode(text, lo, (lo + hi) \div 2, d))

\* json.load: the value, or the JSONDecodeError of a text that is no document
JsonResult(d) == [ok |-> d.ok /\ d.expect = "end", value |-> d.value]

json_load(text, ordered) == JsonResult(Decode(text, 1, Len(text), NewDecoder(ordered)))

(***************************************************************************)
(* CacheManager (server/visualizer/cache_manager.py): the three documents   *)
(* of one project key.  `writer` tells which scan wrote a document; the     *)
(* clock counts hours.                                                      *)
(***************************************************************************)
max_age_hours == 24

\* the elements of a set of str, one after the other
RECURSIVE SetToSeq(_)
SetToSeq(S) ==
    IF S = {} THEN <<>>
    ELSE <<CHOOSE x \in S : TRUE>> \o SetToSeq(S \ {CHOOSE x \in S : TRUE})

\* str(hash(frozenset())): the hash of the empty set is the same in every process
EmptySetHash == "133146708735736"

\* str(hash(frozenset(patterns))) in a process whose string hashing is keyed
\* by seed: equal for equal pattern sets under one seed, taken to differ
\* otherwise; no string is hashed for the empty set
Fingerprint(patterns, seed) ==
    IF patterns = {} THEN EmptySetHash
    ELSE IntToStr(seed) \o ":" \o Join(SetToSeq(patterns), ",")

\* the default of cached_metadata.get(..., '')
NoFingerprint == ""

\* a cache file: whether it exists, and the text in it
NoDocument == [exists |-> FALSE, writer |-> 0, text |-> <<>>]

\* open(cache_file, 'w') and json.dump
Written(writer, text) == [exists |-> TRUE, writer |-> writer, text |-> text]

\* the None a load returns, in the shape of the value it stands for
NoFiles == [exists |-> FALSE, writer |-> 0, data |-> <<>>]
NoDependencies ==
    [exists |-> FALSE, writer |-> 0, file_graph |-> EmptyGraph,
     function_graph |-> EmptyGraph]
NoMetadata ==
    [exists |-> FALSE, writer |-> 0, last_scan |-> 0, file_count |-> 0,
     exclude_patterns_hash |-> NoFingerprint, just_me_patterns_hash |-> NoFingerprint,
     cache_version |-> ""]

\* the directory of a project key before any save
EmptyCache == [files |-> NoDocument, dependencies |-> NoDocument, metadata |-> NoDocument]

save_parsed_files(c, writer, parsed_data) ==
    [c EXCEPT !.files = Written(writer, DumpParsedFiles(parsed_data))]

\* None when the file is missing or json.load raises
LoadedFiles(doc, loaded) ==
    IF doc.exists /\ loaded.ok
    THEN [exists |-> TRUE, writer |-> doc.writer, data |-> loaded.value]
    ELSE NoFiles

load_parsed_files(c) == LoadedFiles(c.files, json_load(c.files.text, TRUE))

\* the graph written under the cache type of the parsed files
SaveDependencyGraphAsFiles(c, writer, graph_data) ==
    [c EXCEPT !.files = Written(writer, DumpGraphData(graph_data))]

save_dependency_graph(c, writer, graph_data) ==
    [c EXCEPT !.dependencies = Written(writer, DumpGraphData(graph_data))]

LoadedDependencies(doc, loaded) ==
    IF doc.exists /\ loaded.ok
    THEN [exists |-> TRUE, writer |-> doc.writer,
          file_graph |-> loaded.value.file_graph,
          function_graph |-> loaded.value.function_graph]
    ELSE NoDependencies

load_dependency_graph(c) ==
    LoadedDependencies(c.dependencies, json_load(c.dependencies.text, FALSE))

\* save_metadata adds last_scan = time.time() and cache_version = '1.0'
save_metadata(c, writer, metadata, time) ==
    [c EXCEPT !.metadata =
        Written(writer,
                DumpMetadata([file_count |-> metadata.file_count,
                              exclude_patterns_hash |-> metadata.exclude_patterns_hash,
                              just_me_patterns_hash |-> metadata.just_me_patterns_hash,
                              last_scan |-> time,
                              cache_version |-> "1.0"]))]

LoadedMetadata(doc, loaded) ==
    IF doc.exists /\ loaded.ok
    THEN [exists |-> TRUE, writer |-> doc.writer,
          last_scan |-> loaded.value.last_scan,
          file_count |-> loaded.value.file_count,
          exclude_patterns_hash |-> loaded.value.exclude_patterns_hash,
          just_me_patterns_hash |-> loaded.value.just_me_patterns_hash,
          cache_version |-> loaded.value.cache_version]
    ELSE NoMetadata

load_metadata(c) == LoadedMetadata(c.metadata, json_load(c.metadata.text, FALSE))

\* `if not metadata: return False`, then age_hours < max_age_hours
ValidAge(metadata, time) ==
    /\ metadata.exists
    /\ time - metadata.last_scan < max_age_hours

is_cache_valid(c, time) == ValidAge(load_metadata(c), time)

\* clear_cache(project_path): the project's directory is removed
clear_cache(c) == EmptyCache

\* self.cache_dir
cache_root == "/cache"

\* hashlib.md5(project_path.encode()).hexdigest()[:12], for the project paths
\* the model uses
_get_project_hash(project_path) ==
    CASE project_path = "/r" -> "84a91929c5ae"
      [] project_path = "/s" -> "5e636f95452e"

_get_project_cache_dir(project_path) ==
    PathJoin(cache_root, "project_" \o _get_project_hash(project_path))

\* os.makedirs(cache_path, exist_ok=True), on a directory kept as the map
\* from each project directory to its three documents
EnsureDir(dir, cache_path) ==
    IF cache_path \in DOMAIN dir THEN dir ELSE MapPut(dir, cache_path, EmptyCache)

\* the documents under _get_cache_file_path(project_path, ...)
ProjectCache(dir, project_path) ==
    EnsureDir(dir, _get_project_cache_dir(project_path))[_get_project_cache_dir(project_path)]

WithProjectCache(dir, project_path, c) ==
    MapPut(dir, _get_project_cache_dir(project_path), c)

\* os.listdir(self.cache_dir): the project directories and the .gitignore
\* that _ensure_cache_dir wrote
Listdir(dir) == {Basename(q) : q \in DOMAIN dir} \cup {".gitignore"}

\* shutil.rmtree of every listed item of the paths given
RemoveTrees(dir, items) ==
    [q \in {r \in DOMAIN dir : Basename(r) \notin items} |-> dir[q]]

\* every project directory removed, whatever the project asked for
ClearEveryProject(dir, project_path) ==
    RemoveTrees(dir, {item \in Listdir(dir) : StartsWith(item, "project_")})

\* CacheManager.clear_cache over the whole directory: one project's
\* directory (which _get_project_cache_dir first makes), or with a false
\* project_path every item whose name starts with project_
ClearCacheIn(dir, project_path) ==
    IF project_path # None /\ project_path # ""
    THEN RemoveTrees(dir, {Basename(_get_project_cache_dir(project_path))})
    ELSE RemoveTrees(dir, {item \in Listdir(dir) : StartsWith(item, "project_")})

\* what can happen to a cache file behind the program's back: it is cut
\* short, or overwritten with bytes that are no JSON, or removed
TruncatedTo(doc, n) == [exists |-> TRUE, writer |-> 0, text |-> Take(doc.text, n)]
Garbled(doc) == [exists |-> TRUE, writer |-> 0, text |-> <<"\\x00">> \o doc.text]
\* the ways a cache file gets lost or damaged
DamageKinds == {"missing", "truncated", "garbled"}

Damaged(doc, how) ==
    IF how = "missing" THEN NoDocument
    ELSE IF how = "truncated" THEN TruncatedTo(doc, Len(doc.text) \div 2)
    ELSE Garbled(doc)

\* a loaded document as a Python condition: None and {} are false
FilesTruthy(doc) == doc.exists /\ doc.data # <<>>
DependenciesTruthy(doc) == doc.exists
MetadataTruthy(doc) == doc.exists

(***************************************************************************)
(* scan_project's use of the cache, and the responses of the routes         *)
(***************************************************************************)
\* a cache that passes the age check whatever filters it was made with
FiltersUnchangedAlways(cached_metadata, exclude_patterns, just_me_patterns, seed) ==
    MetadataTruthy(cached_metadata)

\* `if cached_metadata:` and both stored fingerprints equal the current ones
FiltersUnchanged(cached_metadata, exclude_patterns, just_me_patterns, seed) ==
    /\ MetadataTruthy(cached_metadata)
    /\ cached_metadata.exclude_patterns_hash = Fingerprint(exclude_patterns, seed)
    /\ cached_metadata.just_me_patterns_hash = Fingerprint(just_me_patterns, seed)

\* cache_valid after the cache check
CacheValid(c, use_cache, force_refresh, exclude_patterns, just_me_patterns, seed, time) ==
    /\ use_cache
    /\ ~force_refresh
    /\ is_cache_valid(c, time)
    /\ FiltersUnchanged(load_metadata(c), exclude_patterns, just_me_patterns, seed)

\* `if cached_files and cached_graph:`
CacheHit(c, use_cache, force_refresh, exclude_patterns, just_me_patterns, seed, time) ==
    /\ CacheValid(c, use_cache, force_refresh, exclude_patterns, just_me_patterns, seed, time)
    /\ FilesTruthy(load_parsed_files(c))
    /\ DependenciesTruthy(load_dependency_graph(c))

\* the part of a response body the model keeps: the edges get_graph serves,
\* and the 'filepath' and 'dependencies' keys of get_file_details
NoBody ==
    [edges |-> <<>>, filepath |-> "",
     dependencies |-> [imports |-> <<>>, imported_by |-> <<>>]]

Response(status, code, cached, file_count) ==
    [status |-> status, code |-> code, cached |-> cached, file_count |-> file_count,
     body |-> NoBody]

NoResponse == Response("none", 0, FALSE, 0)

\* the except branch of a route
ServerError == Response("error", 500, FALSE, 0)

NotFound == Response("error", 404, FALSE, 0)

\* the answer from the cache; metadata.get raises when the metadata is gone
CachedResponse(cached_files, metadata) ==
    IF MetadataTruthy(metadata)
    THEN Response("success", 200, TRUE, Len(cached_files.data))
    ELSE ServerError

\* the answer of a fresh scan
FreshResponse(parsed) == Response("success", 200, FALSE, Len(parsed))

\* the metadata a fresh scan saves
ScanMetadata(parsed, exclude_patterns, just_me_patterns, seed) ==
    [file_count |-> Len(parsed),
     exclude_patterns_hash |-> Fingerprint(exclude_patterns, seed),
     just_me_patterns_hash |-> Fingerprint(just_me_patterns, seed)]

\* the three saves of a fresh scan, in their order
SaveScan(c, writer, result, exclude_patterns, just_me_patterns, seed, time) ==
    save_metadata(
        save_dependency_graph(save_parsed_files(c, writer, result.parsed_files),
                              writer, result),
        writer,
        ScanMetadata(result.parsed_files, exclude_patterns, just_me_patterns, seed),
        time)

\* get_graph: 404 without a graph document
GraphResponse(graph_data) ==
    IF DependenciesTruthy(graph_data)
    THEN [Response("success", 200, FALSE, Len(graph_data.file_graph.nodes))
             EXCEPT !.body.edges = graph_data.file_graph.edges]
    ELSE NotFound

\* get_file_dependencies: the targets of the edges that leave the file and
\* the sources of the edges that reach it, in the order of the edges
get_file_dependencies(edges, filepath) ==
    [imports |->
        [k \in 1..Len(SelectSeq(edges, LAMBDA e :
                          e.source = Relpath(filepath, project_root))) |->
            SelectSeq(edges, LAMBDA e :
                e.source = Relpath(filepath, project_root))[k].target],
     imported_by |->
        [k \in 1..Len(SelectSeq(edges, LAMBDA e :
                          e.target = Relpath(filepath, project_root))) |->
            SelectSeq(edges, LAMBDA e :
                e.target = Relpath(filepath, project_root))[k].source]]

\* get_file_details: 404 without parsed files or without the file among
\* them; the analyzer it builds has no alias configuration
FileDetailsResponse(parsed_doc, full_path, on_disk) ==
    IF ~FilesTruthy(parsed_doc) THEN NotFound
    ELSE IF full_path \notin Range(Filepaths(parsed_doc.data)) THEN NotFound
    ELSE IF build_file_graph(parsed_doc.data, <<>>, on_disk).raised THEN ServerError
    ELSE [Response("success", 200, FALSE, Len(parsed_doc.data))
             EXCEPT !.body.filepath = full_path,
                    !.body.dependencies =
                        get_file_dependencies(
                            build_file_graph(parsed_doc.data, <<>>, on_disk).edges,
                            full_path)]

\* get_stats: the metadata, or null
StatsResponse(metadata) == Response("success", 200, FALSE, metadata.file_count)

(***************************************************************************)
(* The projects the model runs on: each is a disk image, path -> content.  *)
(***************************************************************************)
\* the largest number of importers of hub.py
MaxImporters == 3

Digit(i) == <<"0", "1", "2", "3", "4", "5", "6", "7", "8", "9">>[i + 1]

ImporterPath(i) == PathJoin(project_root, "file" \o Digit(i) \o ".py")

\* hub.py and n files that each do `from hub import fn`
HubProject(n) ==
    [p \in {"/r/hub.py"} \cup {ImporterPath(i) : i \in 0..(n - 1)} |->
        IF p = "/r/hub.py"
        THEN Source(<<Def("fn", FALSE, <<>>, <<>>)>>)
        ELSE Source(<<ImportFrom("hub", 0, <<"fn">>),
                      Def("run", FALSE, <<"fn">>, <<>>)>>)]

\* the module names tried for X in `from X import helper`
ModuleNames == {"utils", "hub", "rest"}

\* X.py and main.py in the root, main.py doing `from X import helper`
PairProject(X) ==
    (PathJoin(project_root, X \o ".py") :> Source(<<Def("helper", FALSE, <<>>, <<>>)>>))
    @@ ("/r/main.py" :> Source(<<ImportFrom(X, 0, <<"helper">>),
                                 Def("main", FALSE, <<"helper">>, <<>>)>>))

\* package a: a/util.py defines f, a/main.py does `from .util import f`;
\* top.py does `import a`; a/__init__.py exists when with_init
PackageProject(with_init) ==
    ("/r/a/util.py" :> Source(<<Def("f", FALSE, <<>>, <<>>)>>))
    @@ ("/r/a/main.py" :> Source(<<ImportFrom("util", 1, <<"f">>)>>))
    @@ ("/r/top.py" :> Source(<<Import(<<"a">>)>>))
    @@ (IF with_init THEN ("/r/a/__init__.py" :> Source(<<>>)) ELSE EmptyMap)

\* a file that defines a name twice, at module level and in a class, next to
\* a file with a syntax error and a stylesheet
DuplicateProject ==
    ("/r/dup.py" :> Source(<<Def("f", FALSE, <<"g">>, <<>>),
                             Def("f", FALSE, <<"f">>, <<>>),
                             Class("A", <<Def("m", FALSE, <<"f", "g">>, <<>>),
                                          Def("m", TRUE, <<>>, <<>>)>>),
                             Def("g", TRUE, <<>>, <<>>)>>))
    @@ ("/r/bad.py" :> Unparsable)
    @@ ("/r/style.css" :> Source(<<>>))

\* a JavaScript tree: relative, index, aliased, external and unknown imports
ScriptProject ==
    ("/r/src/app.js" :> Source(<<ImportFrom("./util", 0, <<"u">>),
                                 ImportFrom("../lib", 0, <<"l">>),
                                 ImportFrom("react", 0, <<"React">>),
                                 ImportFrom("~util", 0, <<"u">>)>>))
    @@ ("/r/src/util.js" :> Source(<<ImportFrom("lib/index", 0, <<"l">>)>>))
    @@ ("/r/lib/index.js" :> Source(<<ImportFrom("nothere", 0, <<"n">>)>>))

\* two files that define helper; the second calls helper and fn, a method of
\* a class of the first
ShadowProject ==
    ("/r/one.py" :> Source(<<Def("helper", FALSE, <<>>, <<>>),
                             Class("K", <<Def("fn", FALSE, <<>>, <<>>)>>)>>))
    @@ ("/r/two.py" :> Source(<<Def("helper", FALSE, <<>>, <<>>),
                                Def("main", FALSE, <<"helper", "fn">>, <<>>)>>))

\* a JavaScript tree for an alias with two templates: tool.js lies under the
\* first template only, util.js under the last only
TemplateProject ==
    ("/r/src/app.js" :> Source(<<ImportFrom("@tool", 0, <<"t">>),
                                 ImportFrom("@util", 0, <<"u">>)>>))
    @@ ("/r/lib/tool.js" :> Source(<<>>))
    @@ ("/r/src/util.js" :> Source(<<>>))

\* a file two packages deep that imports with one and with two leading dots
DottedProject ==
    ("/r/a/b/main.js" :> Source(<<ImportFrom(".near", 0, <<"n">>),
                                  ImportFrom("..up", 0, <<"u">>)>>))
    @@ ("/r/a/b/near.js" :> Source(<<>>))
    @@ ("/r/a/up.js" :> Source(<<>>))

Projects ==
    {HubProject(n) : n \in 0..MaxImporters}
    \cup {PairProject(X) : X \in ModuleNames}
    \cup {PackageProject(b) : b \in BOOLEAN}
    \cup {DuplicateProject, ScriptProject, ShadowProject, TemplateProject, DottedProject}

\* app.config['ALIAS_CONFIG']: the `paths` of the tsconfig.json, in file order
AliasConfigs ==
    {<<>>,
     <<[alias |-> "@/*", paths |-> <<"src/*">>]>>,
     <<[alias |-> "~*", paths |-> <<"lib/*", "src/*">>]>>}

\* a `paths` entry with two templates: {"@/*": ["lib/*", "src/*"]}
TemplateConfigs == {<<[alias |-> "@/*", paths |-> <<"lib/*", "src/*">>]>>}

\* the iteration orders of a set of callee names under the two hash seeds
HashOrders == {<<"f", "g", "fn", "helper">>, <<"helper", "fn", "g", "f">>}

\* a flat project in the order of its listing: an importer, the module it
\* imports, a file with a syntax error, a text file and a Python file whose
\* extension is in capitals
MixedListing == <<"/r/good.py", "/r/util.py", "/r/bad.py", "/r/notes.txt", "/r/SHOUT.PY">>

MixedProject ==
    ("/r/good.py" :> Source(<<ImportFrom("util", 0, <<"f">>),
                              Def("run", FALSE, <<"f">>, <<>>)>>))
    @@ ("/r/util.py" :> Source(<<Def("f", FALSE, <<>>, <<>>)>>))
    @@ ("/r/bad.py" :> Unparsable)
    @@ ("/r/notes.txt" :> Source(<<>>))
    @@ ("/r/SHOUT.PY" :> Source(<<Def("shout", FALSE, <<>>, <<>>)>>))

\* the orders in which os.walk can list the files of one directory
WalkOrders(files) ==
    {[i \in 1..Len(files) |-> files[perm[i]]] : perm \in Permutations(1..Len(files))}

\* the contents of the exclude file and of the just_me file
FilterSets ==
    {[exclude |-> {}, just_me |-> {}],
     [exclude |-> {"good"}, just_me |-> {}],
     [exclude |-> {}, just_me |-> {"util", "bad.py"}],
     [exclude |-> {}, just_me |-> {"nothing"}]}

\* the hash seeds of two runs of the server
HashSeeds == {1, 2}

\* the most requests the server is sent
MaxRequests == 3

\* the hour at which the clock stops
MaxClock == 24

(***************************************************************************)
(* State                                                                   *)
(***************************************************************************)
VARIABLES
    disk,            \* the project tree: path -> content
    alias_config,    \* the alias configuration of the application
    hash_order,      \* the set iteration order of this run of the program
    parsed_files,    \* DependencyAnalyzer.parsed_files, in insertion order
    file_graph,      \* DependencyAnalyzer.file_graph
    function_graph,  \* DependencyAnalyzer.function_graph
    last_call,       \* the last analyzer call and whether it returned
    walk,            \* the files of the project in the order os.walk lists them
    position,        \* the place in walk of the next file of the scan
    scan_pc,         \* where a scan_project request is in its fresh scan
    exclude_file,    \* the patterns in the exclude file
    just_me_file,    \* the patterns in the just_me file
    hash_seed,       \* the string hash seed of the running server
    cache,           \* the cache documents of the project
    now,             \* the clock, in hours
    served,          \* the number of requests received
    request,         \* the last request handled
    response,        \* its response
    scanned_with,    \* the filter sets of the last fresh scan that was stored
    requests,        \* the requests in progress, by handler thread
    cache_dir,       \* the cache directory: project directory -> its documents
    store_call,      \* the last call of the cache manager, and what it returned
    scans,           \* the scan results at hand for the cache manager to save
    edited,          \* the import last written into the project tree
    analysis,        \* the last analysis of the graphs, and what it returned
    tasks,           \* TaskManager.tasks: the ids of the tasks in the table
    task_infos,      \* the TaskInfo objects made so far, by task id
    _lock,           \* TaskManager._lock: the thread that holds it, or None
    threads,         \* where each handler thread and the cleanup thread is
    workers          \* where the worker thread of each task is

analyzer_vars == <<parsed_files, file_graph, function_graph, last_call>>
input_vars == <<disk, alias_config, hash_order, walk>>
filter_vars == <<exclude_file, just_me_file, hash_seed>>
route_vars == <<walk, position, scan_pc, exclude_file, just_me_file, hash_seed,
                cache, now, served, request, response, scanned_with, requests>>

store_vars == <<cache_dir, store_call, scans>>
analysis_vars == <<edited, analysis>>
task_vars == <<tasks, task_infos, _lock, threads, workers>>

vars == <<disk, alias_config, hash_order, parsed_files, file_graph,
          function_graph, last_call, walk, position, scan_pc, exclude_file,
          just_me_file, hash_seed, cache, now, served, request, response,
          scanned_with, requests, cache_dir, store_call, scans, edited, analysis,
          tasks, task_infos, _lock, threads, workers>>

NoStoreCall == [op |-> "none", project |-> None, count |-> 0, value |-> None]

\* the cache manager is not called directly
NoStore ==
    /\ cache_dir = EmptyMap
    /\ store_call = NoStoreCall
    /\ scans = <<>>

\* no edit yet; an edit keeps the file graph of before, whether the tree was
\* analysed again since, and how many edits were made
NoEdit ==
    [source |-> None, target |-> None, fresh |-> FALSE, before |-> EmptyGraph,
     count |-> 0]

NoAnalysis == [op |-> "none", cycles |-> <<>>, unused_files |-> {}, unused_functions |-> {}]

\* the tree is not edited and the graphs are not analysed
NoAnalyzing ==
    /\ edited = NoEdit
    /\ analysis = NoAnalysis

\* no task manager: no task, no thread
NoTasks ==
    /\ tasks = {}
    /\ task_infos = <<>>
    /\ _lock = None
    /\ threads = EmptyMap
    /\ workers = <<>>

NoRequest == [op |-> "none", use_cache |-> FALSE, force_refresh |-> FALSE]

\* no server: the analyzer is used on its own
NoServer ==
    /\ walk = <<>>
    /\ position = 1
    /\ scan_pc = "none"
    /\ exclude_file = {}
    /\ just_me_file = {}
    /\ hash_seed = 1
    /\ cache = EmptyCache
    /\ now = 0
    /\ served = 0
    /\ request = NoRequest
    /\ response = NoResponse
    /\ scanned_with = [exclude |-> {}, just_me |-> {}]
    /\ requests = <<>>

(***************************************************************************)
(* The analyzer driven through its API, as the unit tests drive it         *)
(***************************************************************************)
InitGraph ==
    /\ disk \in Projects
    /\ alias_config \in AliasConfigs \cup TemplateConfigs
    /\ hash_order \in HashOrders
    /\ parsed_files = <<>>
    /\ file_graph = EmptyGraph
    /\ function_graph = EmptyGraph
    /\ last_call = [op |-> "init", ok |-> TRUE]
    /\ NoServer
    /\ NoStore
    /\ NoAnalyzing
    /\ NoTasks

\* parsed = parser.parse_file(p); if parsed: analyzer.add_parsed_file(parsed)
AddParsedFile(p) ==
    \E parsed \in {parse_file(p, disk[p], hash_order)} :
        /\ parsed # NoRecord
        /\ parsed_files' = add_parsed_file(parsed_files, parsed)
        /\ last_call' = [op |-> "add_parsed_file", ok |-> TRUE]
        /\ UNCHANGED <<store_vars, analysis_vars, task_vars, disk, alias_config, hash_order,
                       file_graph, function_graph, route_vars>>

\* analyzer.build_file_graph()
BuildFileGraph ==
    \E g \in {build_file_graph(parsed_files, alias_config, DOMAIN disk)} :
        /\ file_graph' = IF g.raised THEN file_graph
                          ELSE [nodes |-> g.nodes, edges |-> g.edges]
        /\ last_call' = [op |-> "build_file_graph", ok |-> ~g.raised]
        /\ UNCHANGED <<store_vars, analysis_vars, task_vars, disk, alias_config, hash_order,
                       parsed_files, function_graph, route_vars>>

\* analyzer.build_function_graph()
BuildFunctionGraph ==
    /\ function_graph' = build_function_graph(parsed_files)
    /\ last_call' = [op |-> "build_function_graph", ok |-> TRUE]
    /\ UNCHANGED <<store_vars, analysis_vars, task_vars, disk, alias_config, hash_order,
                   parsed_files, file_graph, route_vars>>

NextGraph ==
    \/ \E p \in DOMAIN disk : AddParsedFile(p)
    \/ BuildFileGraph
    \/ BuildFunctionGraph

SpecGraph == InitGraph /\ [][NextGraph]_vars

(***************************************************************************)
(* One fresh scan of scan_project, file by file                            *)
(***************************************************************************)
InitScan ==
    /\ disk = MixedProject
    /\ walk \in WalkOrders(MixedListing)
    /\ alias_config \in AliasConfigs
    /\ hash_order = <<"f", "g", "fn", "helper">>
    /\ \E filters \in FilterSets :
        /\ exclude_file = filters.exclude
        /\ just_me_file = filters.just_me
    /\ hash_seed = 1
    /\ parsed_files = <<>>
    /\ file_graph = EmptyGraph
    /\ function_graph = EmptyGraph
    /\ last_call = [op |-> "init", ok |-> TRUE]
    /\ position = 1
    /\ scan_pc = "walk"
    /\ cache = EmptyCache
    /\ now = 0
    /\ served = 1
    /\ request = [op |-> "scan_project", use_cache |-> FALSE, force_refresh |-> FALSE]
    /\ response = NoResponse
    /\ scanned_with = [exclude |-> {}, just_me |-> {}]
    /\ requests = <<>>
    /\ NoStore
    /\ NoAnalyzing
    /\ NoTasks

\* the loop of the walk has run through every file
LoopDoneAtAnyFile == TRUE

LoopDone == position > Len(walk)

\* one pass of `for file in files:`
ScanNextFile ==
    /\ scan_pc = "walk"
    /\ position <= Len(walk)
    /\ parsed_files' = ScanFile(parsed_files, walk[position], disk, exclude_file,
                                just_me_file, hash_order)
    /\ position' = position + 1
    /\ UNCHANGED <<input_vars, store_vars, analysis_vars, task_vars, filter_vars, file_graph,
                   function_graph, last_call, scan_pc, cache, now, served, request,
                   response, scanned_with, requests>>

\* file_graph = analyzer.build_file_graph(); an exception leaves the route
\* through its except branch
ScanBuildFileGraph ==
    /\ scan_pc = "walk"
    /\ LoopDone
    /\ \E g \in {build_file_graph(parsed_files, alias_config, DOMAIN disk)} :
        /\ file_graph' = IF g.raised THEN file_graph
                          ELSE [nodes |-> g.nodes, edges |-> g.edges]
        /\ last_call' = [op |-> "build_file_graph", ok |-> ~g.raised]
        /\ scan_pc' = IF g.raised THEN "done" ELSE "build_function_graph"
        /\ response' = IF g.raised THEN ServerError ELSE response
    /\ UNCHANGED <<input_vars, store_vars, analysis_vars, task_vars, filter_vars, parsed_files,
                   function_graph, position, cache, now, served, request,
                   scanned_with, requests>>

\* function_graph = analyzer.build_function_graph()
ScanBuildFunctionGraph ==
    /\ scan_pc = "build_function_graph"
    /\ function_graph' = build_function_graph(parsed_files)
    /\ last_call' = [op |-> "build_function_graph", ok |-> TRUE]
    /\ scan_pc' = "save_parsed_files"
    /\ UNCHANGED <<input_vars, store_vars, analysis_vars, task_vars, filter_vars, parsed_files,
                   file_graph, position, cache, now, served, request, response,
                   scanned_with, requests>>

\* cache_manager.save_parsed_files(project_path, parsed_files)
ScanSaveParsedFiles ==
    /\ scan_pc = "save_parsed_files"
    /\ cache' = save_parsed_files(cache, served, parsed_files)
    /\ scan_pc' = "save_dependency_graph"
    /\ UNCHANGED <<input_vars, store_vars, analysis_vars, task_vars, filter_vars, analyzer_vars,
                   position, now, served, request, response, scanned_with, requests>>

\* cache_manager.save_dependency_graph(project_path, combined_graph)
ScanSaveDependencyGraph ==
    /\ scan_pc = "save_dependency_graph"
    /\ cache' = save_dependency_graph(cache, served,
                    [file_graph |-> file_graph, function_graph |-> function_graph])
    /\ scan_pc' = "save_metadata"
    /\ UNCHANGED <<input_vars, store_vars, analysis_vars, task_vars, filter_vars, analyzer_vars,
                   position, now, served, request, response, scanned_with, requests>>

\* cache_manager.save_metadata(...) and the response of the fresh scan
ScanSaveMetadata ==
    /\ scan_pc = "save_metadata"
    /\ cache' = save_metadata(cache, served,
                    ScanMetadata(parsed_files, exclude_file, just_me_file, hash_seed),
                    now)
    /\ scanned_with' = [exclude |-> exclude_file, just_me |-> just_me_file]
    /\ response' = FreshResponse(parsed_files)
    /\ scan_pc' = "done"
    /\ UNCHANGED <<input_vars, store_vars, analysis_vars, task_vars, filter_vars, analyzer_vars,
                   position, now, served, request, requests>>

NextScan ==
    \/ ScanNextFile
    \/ ScanBuildFileGraph
    \/ ScanBuildFunctionGraph
    \/ ScanSaveParsedFiles
    \/ ScanSaveDependencyGraph
    \/ ScanSaveMetadata

SpecScan == InitScan /\ [][NextScan]_vars

(***************************************************************************)
(* The routes served one request at a time                                 *)
(***************************************************************************)
InitCache ==
    /\ disk = MixedProject
    /\ walk = MixedListing
    /\ alias_config \in {<<>>, <<[alias |-> "@/*", paths |-> <<"src/*">>]>>}
    /\ hash_order = <<"f", "g", "fn", "helper">>
    /\ exclude_file = {}
    /\ just_me_file = {}
    /\ hash_seed = 1
    /\ parsed_files = <<>>
    /\ file_graph = EmptyGraph
    /\ function_graph = EmptyGraph
    /\ last_call = [op |-> "init", ok |-> TRUE]
    /\ position = 1
    /\ scan_pc = "none"
    /\ cache = EmptyCache
    /\ now = 0
    /\ served = 0
    /\ request = NoRequest
    /\ response = NoResponse
    /\ scanned_with = [exclude |-> {}, just_me |-> {}]
    /\ requests = <<>>
    /\ NoStore
    /\ NoAnalyzing
    /\ NoTasks

\* a request arrives
Receive(op, use_cache, force_refresh) ==
    /\ served < MaxRequests
    /\ served' = served + 1
    /\ request' = [op |-> op, use_cache |-> use_cache, force_refresh |-> force_refresh]

\* scan_project answered from the cache
AnswerFromCache ==
    /\ response' = CachedResponse(load_parsed_files(cache), load_metadata(cache))
    /\ UNCHANGED <<cache, scanned_with>>

\* scan_project answered by a fresh scan, stored unless it raised
AnswerFresh(result) ==
    IF result.raised
    THEN /\ response' = ServerError
         /\ UNCHANGED <<cache, scanned_with>>
    ELSE /\ cache' = SaveScan(cache, served + 1, result, exclude_file, just_me_file,
                              hash_seed, now)
         /\ scanned_with' = [exclude |-> exclude_file, just_me |-> just_me_file]
         /\ response' = FreshResponse(result.parsed_files)

\* POST /api/visualizer/scan, result being what a fresh scan would find
ScanProject(use_cache, force_refresh, result) ==
    /\ Receive("scan_project", use_cache, force_refresh)
    /\ IF CacheHit(cache, use_cache, force_refresh, exclude_file, just_me_file,
                   hash_seed, now)
       THEN AnswerFromCache
       ELSE AnswerFresh(result)
    /\ UNCHANGED <<input_vars, store_vars, analysis_vars, task_vars, filter_vars, analyzer_vars, position, scan_pc, now, requests>>

\* GET /api/visualizer/graph
GetGraph ==
    /\ Receive("get_graph", FALSE, FALSE)
    /\ response' = GraphResponse(load_dependency_graph(cache))
    /\ UNCHANGED <<input_vars, store_vars, analysis_vars, task_vars, filter_vars, analyzer_vars, position, scan_pc, now,
                   requests, cache, scanned_with>>

\* GET /api/visualizer/file/<filepath>
GetFileDetails(filepath) ==
    /\ Receive("get_file_details", FALSE, FALSE)
    /\ response' = FileDetailsResponse(load_parsed_files(cache),
                                       PathJoin(project_root, filepath), DOMAIN disk)
    /\ UNCHANGED <<input_vars, store_vars, analysis_vars, task_vars, filter_vars, analyzer_vars, position, scan_pc, now,
                   requests, cache, scanned_with>>

\* GET /api/visualizer/stats
GetStats ==
    /\ Receive("get_stats", FALSE, FALSE)
    /\ response' = StatsResponse(load_metadata(cache))
    /\ UNCHANGED <<input_vars, store_vars, analysis_vars, task_vars, filter_vars, analyzer_vars, position, scan_pc, now,
                   requests, cache, scanned_with>>

\* POST /api/visualizer/cache/clear
ClearCache ==
    /\ Receive("clear_cache", FALSE, FALSE)
    /\ cache' = clear_cache(cache)
    /\ response' = Response("success", 200, FALSE, 0)
    /\ UNCHANGED <<input_vars, store_vars, analysis_vars, task_vars, filter_vars, analyzer_vars, position, scan_pc, now,
                   requests, scanned_with>>

\* half a day passes
Tick ==
    /\ now + 12 <= MaxClock
    /\ now' = now + 12
    /\ UNCHANGED <<input_vars, store_vars, analysis_vars, task_vars, filter_vars, analyzer_vars, position, scan_pc, cache,
                   served, request, response, scanned_with, requests>>

\* the user edits the exclude file or the just_me file
EditFilters ==
    /\ \E filters \in FilterSets :
        /\ <<filters.exclude, filters.just_me>> # <<exclude_file, just_me_file>>
        /\ exclude_file' = filters.exclude
        /\ just_me_file' = filters.just_me
    /\ UNCHANGED <<input_vars, store_vars, analysis_vars, task_vars, hash_seed, analyzer_vars, position, scan_pc, cache, now,
                   served, request, response, scanned_with, requests>>

\* the server is started again: a new hash seed, the cache directory stays
Restart ==
    /\ hash_seed' \in HashSeeds \ {hash_seed}
    /\ UNCHANGED <<input_vars, store_vars, analysis_vars, task_vars, exclude_file, just_me_file, analyzer_vars, position,
                   scan_pc, cache, now, served, request, response, scanned_with,
                   requests>>

NextCache ==
    \/ \E result \in {FreshScan(disk, walk, exclude_file, just_me_file, alias_config,
                               hash_order)} :
        \E use_cache, force_refresh \in BOOLEAN :
            ScanProject(use_cache, force_refresh, result)
    \/ GetGraph
    \/ \E filepath \in {"util.py", "bad.py"} : GetFileDetails(filepath)
    \/ GetStats
    \/ ClearCache
    \/ Tick
    \/ EditFilters
    \/ Restart

SpecCache == InitCache /\ [][NextCache]_vars

(***************************************************************************)
(* The routes that serve the graph and the details of a file, over         *)
(* projects scanned with and without an alias configuration                *)
(***************************************************************************)
DetailProjects == {PairProject("utils"), HubProject(2), TemplateProject}

InitDetails ==
    /\ disk \in DetailProjects
    /\ walk = SetToSeq(DOMAIN disk)
    /\ alias_config \in {<<>>, <<[alias |-> "@/*", paths |-> <<"src/*">>]>>}
    /\ hash_order = <<"f", "g", "fn", "helper">>
    /\ exclude_file = {}
    /\ just_me_file = {}
    /\ hash_seed = 1
    /\ parsed_files = <<>>
    /\ file_graph = EmptyGraph
    /\ function_graph = EmptyGraph
    /\ last_call = [op |-> "init", ok |-> TRUE]
    /\ position = 1
    /\ scan_pc = "none"
    /\ cache = EmptyCache
    /\ now = 0
    /\ served = 0
    /\ request = NoRequest
    /\ response = NoResponse
    /\ scanned_with = [exclude |-> {}, just_me |-> {}]
    /\ requests = <<>>
    /\ NoStore
    /\ NoAnalyzing
    /\ NoTasks

NextDetails ==
    \/ \E result \in {FreshScan(disk, walk, exclude_file, just_me_file, alias_config,
                               hash_order)} :
        \E use_cache, force_refresh \in BOOLEAN :
            ScanProject(use_cache, force_refresh, result)
    \/ GetGraph
    \/ \E p \in DOMAIN disk : GetFileDetails(Relpath(p, project_root))
    \/ ClearCache

SpecDetails == InitDetails /\ [][NextDetails]_vars

(***************************************************************************)
(* The routes over a cache directory whose files get lost or damaged        *)
(* between requests                                                         *)
(***************************************************************************)
\* a cache file a save wrote is removed, cut short or overwritten with bytes
\* that are no JSON
DamageCache(slot, how) ==
    /\ cache[slot].writer > 0
    /\ cache' = [cache EXCEPT ![slot] = Damaged(@, how)]
    /\ UNCHANGED <<input_vars, store_vars, analysis_vars, task_vars, filter_vars, analyzer_vars,
                   position, scan_pc, now, served, request, response, scanned_with,
                   requests>>

NextDamage ==
    \/ \E result \in {FreshScan(disk, walk, exclude_file, just_me_file, alias_config,
                               hash_order)} :
        \E use_cache, force_refresh \in BOOLEAN :
            ScanProject(use_cache, force_refresh, result)
    \/ \E slot \in DOMAIN EmptyCache, how \in DamageKinds : DamageCache(slot, how)
    \/ Tick

SpecDamage == InitCache /\ [][NextDamage]_vars

(***************************************************************************)
(* The routes served by concurrent handler threads: a step is one call of  *)
(* the cache manager, or the part of a route between two such calls.  The  *)
(* routes take no lock.                                                     *)
(***************************************************************************)
Handlers == {"thread-1", "thread-2"}

NoResult ==
    [raised |-> FALSE, parsed_files |-> <<>>, file_graph |-> EmptyGraph,
     function_graph |-> EmptyGraph]

\* a handler thread with no request
IdleRequest ==
    [op |-> "none", pc |-> "idle", id |-> 0, exclude_patterns |-> {},
     just_me_patterns |-> {}, cached_files |-> NoFiles,
     cached_graph |-> NoDependencies, result |-> NoResult]

InitServe ==
    /\ disk = MixedProject
    /\ walk = MixedListing
    /\ alias_config = <<>>
    /\ hash_order = <<"f", "g", "fn", "helper">>
    /\ exclude_file = {}
    /\ just_me_file = {}
    /\ hash_seed = 1
    /\ parsed_files = <<>>
    /\ file_graph = EmptyGraph
    /\ function_graph = EmptyGraph
    /\ last_call = [op |-> "init", ok |-> TRUE]
    /\ position = 1
    /\ scan_pc = "none"
    /\ cache = EmptyCache
    /\ now = 0
    /\ served = 0
    /\ request = NoRequest
    /\ response = NoResponse
    /\ scanned_with = [exclude |-> {}, just_me |-> {}]
    /\ requests = [h \in Handlers |-> IdleRequest]
    /\ NoStore
    /\ NoAnalyzing
    /\ NoTasks

\* what a step of a handler leaves alone besides the cache and its request
ServeFrame ==
    UNCHANGED <<input_vars, store_vars, analysis_vars, task_vars, filter_vars, analyzer_vars, position, scan_pc, now, request>>

\* the handler sends its response and is free again
Respond(h, answer) ==
    /\ requests' = [requests EXCEPT ![h] = IdleRequest]
    /\ response' = answer

\* the handler is free and takes the next request
Accept(h) ==
    /\ requests[h].pc = "idle"
    /\ served < MaxRequests
    /\ served' = served + 1

\* the handler goes on with its request
Continue(h, pc) ==
    /\ requests[h].pc = pc
    /\ UNCHANGED served

\* scan_project up to the cache check: the pattern files are read
StartScan(h, use_cache, force_refresh) ==
    /\ Accept(h)
    /\ requests' = [requests EXCEPT ![h] =
          [IdleRequest EXCEPT !.op = "scan_project", !.id = served + 1,
              !.exclude_patterns = exclude_file, !.just_me_patterns = just_me_file,
              !.pc = IF use_cache /\ ~force_refresh THEN "is_cache_valid"
                     ELSE "fresh_scan"]]
    /\ UNCHANGED <<cache, scanned_with, response>>
    /\ ServeFrame

\* cache_manager.is_cache_valid(project_path)
CheckCacheValid(h) ==
    /\ Continue(h, "is_cache_valid")
    /\ requests' = [requests EXCEPT ![h].pc =
          IF is_cache_valid(cache, now) THEN "load_metadata" ELSE "fresh_scan"]
    /\ UNCHANGED <<cache, scanned_with, response>>
    /\ ServeFrame

\* cached_metadata = cache_manager.load_metadata(project_path), compared
CompareFilters(h) ==
    /\ Continue(h, "load_metadata")
    /\ requests' = [requests EXCEPT ![h].pc =
          IF FiltersUnchanged(load_metadata(cache), requests[h].exclude_patterns,
                              requests[h].just_me_patterns, hash_seed)
          THEN "load_parsed_files" ELSE "fresh_scan"]
    /\ UNCHANGED <<cache, scanned_with, response>>
    /\ ServeFrame

\* cached_files = cache_manager.load_parsed_files(project_path)
LoadCachedFiles(h) ==
    /\ Continue(h, "load_parsed_files")
    /\ requests' = [requests EXCEPT ![h].cached_files = load_parsed_files(cache),
                                    ![h].pc = "load_dependency_graph"]
    /\ UNCHANGED <<cache, scanned_with, response>>
    /\ ServeFrame

\* cached_graph = cache_manager.load_dependency_graph(project_path), then
\* `if cached_files and cached_graph:`
LoadCachedGraph(h) ==
    /\ Continue(h, "load_dependency_graph")
    /\ requests' = [requests EXCEPT ![h].cached_graph = load_dependency_graph(cache),
          ![h].pc = IF /\ FilesTruthy(requests[h].cached_files)
                       /\ DependenciesTruthy(load_dependency_graph(cache))
                    THEN "respond_cached" ELSE "fresh_scan"]
    /\ UNCHANGED <<cache, scanned_with, response>>
    /\ ServeFrame

\* metadata = cache_manager.load_metadata(project_path) and the cached answer
RespondCached(h) ==
    /\ Continue(h, "respond_cached")
    /\ Respond(h, CachedResponse(requests[h].cached_files, load_metadata(cache)))
    /\ UNCHANGED <<cache, scanned_with>>
    /\ ServeFrame

\* the walk and the graphs of a fresh scan
RunFreshScan(h) ==
    /\ Continue(h, "fresh_scan")
    /\ \E result \in {FreshScan(disk, walk, requests[h].exclude_patterns,
                                requests[h].just_me_patterns, alias_config, hash_order)} :
        IF result.raised
        THEN Respond(h, ServerError)
        ELSE /\ requests' = [requests EXCEPT ![h].result = result,
                                             ![h].pc = "save_parsed_files"]
             /\ UNCHANGED response
    /\ UNCHANGED <<cache, scanned_with>>
    /\ ServeFrame

\* cache_manager.save_parsed_files(project_path, parsed_files)
SaveParsedFiles(h) ==
    /\ Continue(h, "save_parsed_files")
    /\ cache' = save_parsed_files(cache, requests[h].id, requests[h].result.parsed_files)
    /\ requests' = [requests EXCEPT ![h].pc = "save_dependency_graph"]
    /\ UNCHANGED <<scanned_with, response>>
    /\ ServeFrame

\* cache_manager.save_dependency_graph(project_path, combined_graph)
SaveDependencyGraph(h) ==
    /\ Continue(h, "save_dependency_graph")
    /\ cache' = save_dependency_graph(cache, requests[h].id, requests[h].result)
    /\ requests' = [requests EXCEPT ![h].pc = "save_metadata"]
    /\ UNCHANGED <<scanned_with, response>>
    /\ ServeFrame

\* cache_manager.save_metadata(project_path, {...}) and the fresh answer
SaveMetadata(h) ==
    /\ Continue(h, "save_metadata")
    /\ cache' = save_metadata(cache, requests[h].id,
                    ScanMetadata(requests[h].result.parsed_files,
                                 requests[h].exclude_patterns,
                                 requests[h].just_me_patterns, hash_seed),
                    now)
    /\ scanned_with' = [exclude |-> requests[h].exclude_patterns,
                        just_me |-> requests[h].just_me_patterns]
    /\ Respond(h, FreshResponse(requests[h].result.parsed_files))
    /\ ServeFrame

\* get_graph: one load_dependency_graph
HandleGetGraph(h) ==
    /\ Accept(h)
    /\ Respond(h, GraphResponse(load_dependency_graph(cache)))
    /\ UNCHANGED <<cache, scanned_with>>
    /\ ServeFrame

\* get_file_details: one load_parsed_files
HandleGetFileDetails(h, filepath) ==
    /\ Accept(h)
    /\ Respond(h, FileDetailsResponse(load_parsed_files(cache),
                                       PathJoin(project_root, filepath), DOMAIN disk))
    /\ UNCHANGED <<cache, scanned_with>>
    /\ ServeFrame

\* get_stats: one load_metadata
HandleGetStats(h) ==
    /\ Accept(h)
    /\ Respond(h, StatsResponse(load_metadata(cache)))
    /\ UNCHANGED <<cache, scanned_with>>
    /\ ServeFrame

\* clear_cache: the project's directory is removed
HandleClearCache(h) ==
    /\ Accept(h)
    /\ cache' = clear_cache(cache)
    /\ Respond(h, Response("success", 200, FALSE, 0))
    /\ UNCHANGED scanned_with
    /\ ServeFrame

NextServe ==
    \/ \E h \in Handlers :
        \/ \E use_cache, force_refresh \in BOOLEAN : StartScan(h, use_cache, force_refresh)
        \/ CheckCacheValid(h)
        \/ CompareFilters(h)
        \/ LoadCachedFiles(h)
        \/ LoadCachedGraph(h)
        \/ RespondCached(h)
        \/ RunFreshScan(h)
        \/ SaveParsedFiles(h)
        \/ SaveDependencyGraph(h)
        \/ SaveMetadata(h)
        \/ HandleGetGraph(h)
        \/ HandleGetFileDetails(h, "util.py")
        \/ HandleGetStats(h)
        \/ HandleClearCache(h)
    \/ EditFilters

SpecServe == InitServe /\ [][NextServe]_vars

(***************************************************************************)
(* The cache manager driven through its API, for the directories of two     *)
(* projects, with cache files damaged or removed behind its back            *)
(***************************************************************************)
\* the project paths the cache manager is called with
StorePaths == {"/r", "/s"}

\* the most calls that write or remove a cache file, damage included
MaxStoreCalls == 3

\* what is saved: the scan of the flat project, and a scan of it that no file
\* passes
StoreSamples ==
    <<FreshScan(MixedProject, MixedListing, {}, {}, <<>>, <<"f", "g", "fn", "helper">>),
      FreshScan(MixedProject, MixedListing, {}, {"nothing"}, <<>>,
                <<"f", "g", "fn", "helper">>)>>

InitStore ==
    /\ disk = MixedProject
    /\ walk = MixedListing
    /\ alias_config = <<>>
    /\ hash_order = <<"f", "g", "fn", "helper">>
    /\ parsed_files = <<>>
    /\ file_graph = EmptyGraph
    /\ function_graph = EmptyGraph
    /\ last_call = [op |-> "init", ok |-> TRUE]
    /\ position = 1
    /\ scan_pc = "none"
    /\ exclude_file = {}
    /\ just_me_file = {}
    /\ hash_seed = 1
    /\ cache = EmptyCache
    /\ now = 0
    /\ served = 0
    /\ request = NoRequest
    /\ response = NoResponse
    /\ scanned_with = [exclude |-> {}, just_me |-> {}]
    /\ requests = <<>>
    /\ cache_dir = EmptyMap
    /\ store_call = NoStoreCall
    /\ scans = StoreSamples
    /\ NoAnalyzing
    /\ NoTasks

\* what the calls of the cache manager leave alone
StoreFrame ==
    UNCHANGED <<analyzer_vars, input_vars, analysis_vars, task_vars, position, scan_pc, exclude_file,
                just_me_file, hash_seed, cache, now, served, request, response,
                scanned_with, requests, scans>>

\* a call that writes or removes files
Writes(op, project, value) ==
    /\ store_call.count < MaxStoreCalls
    /\ store_call' = [op |-> op, project |-> project, count |-> store_call.count + 1,
                      value |-> value]
    /\ StoreFrame

\* a call that reads: it makes the project's directory when there is none
Reads(op, project, value) ==
    /\ cache_dir' = EnsureDir(cache_dir, _get_project_cache_dir(project))
    /\ store_call' = [op |-> op, project |-> project, count |-> store_call.count,
                      value |-> value]
    /\ StoreFrame

\* cache.save_parsed_files(project, parsed_data)
SaveParsedFilesCall(project, k) ==
    /\ cache_dir' = WithProjectCache(cache_dir, project,
                        save_parsed_files(ProjectCache(cache_dir, project), k,
                                          scans[k].parsed_files))
    /\ Writes("save_parsed_files", project, k)

\* cache.save_dependency_graph(project, graph_data)
SaveDependencyGraphCall(project, k) ==
    /\ cache_dir' = WithProjectCache(cache_dir, project,
                        save_dependency_graph(ProjectCache(cache_dir, project), k,
                                              scans[k]))
    /\ Writes("save_dependency_graph", project, k)

\* cache.save_metadata(project, metadata)
SaveMetadataCall(project, k) ==
    /\ cache_dir' = WithProjectCache(cache_dir, project,
                        save_metadata(ProjectCache(cache_dir, project), k,
                                      ScanMetadata(scans[k].parsed_files, {}, {},
                                                   hash_seed),
                                      now))
    /\ Writes("save_metadata", project, k)

\* cache.load_parsed_files(project)
LoadParsedFilesCall(project) ==
    Reads("load_parsed_files", project, load_parsed_files(ProjectCache(cache_dir, project)))

\* cache.load_dependency_graph(project)
LoadDependencyGraphCall(project) ==
    Reads("load_dependency_graph", project,
          load_dependency_graph(ProjectCache(cache_dir, project)))

\* cache.load_metadata(project)
LoadMetadataCall(project) ==
    Reads("load_metadata", project, load_metadata(ProjectCache(cache_dir, project)))

\* cache.is_cache_valid(project)
IsCacheValidCall(project) ==
    Reads("is_cache_valid", project, is_cache_valid(ProjectCache(cache_dir, project), now))

\* cache.clear_cache(project), and cache.clear_cache() with project = None
ClearCacheCall(project) ==
    /\ cache_dir' = ClearCacheIn(cache_dir, project)
    /\ Writes("clear_cache", project, None)

\* a cache file of a project is cut short, overwritten or removed (the
\* first project's files are the ones this happens to)
DamageDocument(project, slot, how) ==
    /\ _get_project_cache_dir(project) \in DOMAIN cache_dir
    /\ ProjectCache(cache_dir, project)[slot].exists
    /\ cache_dir' = WithProjectCache(cache_dir, project,
                        [ProjectCache(cache_dir, project) EXCEPT ![slot] = Damaged(@, how)])
    /\ Writes("damage", project, slot)

NextStore ==
    \/ \E project \in StorePaths, k \in 1..Len(scans) :
          \/ SaveParsedFilesCall(project, k)
          \/ SaveDependencyGraphCall(project, k)
          \/ SaveMetadataCall(project, k)
    \/ \E project \in StorePaths :
          \/ LoadParsedFilesCall(project)
          \/ LoadDependencyGraphCall(project)
          \/ LoadMetadataCall(project)
          \/ IsCacheValidCall(project)
    \/ \E project \in StorePaths \cup {None} : ClearCacheCall(project)
    \/ \E slot \in {"files", "dependencies", "metadata"}, how \in DamageKinds :
          DamageDocument("/r", slot, how)

SpecStore == InitStore /\ [][NextStore]_vars

(***************************************************************************)
(* The analyzer over a project whose files gain imports: the tree is       *)
(* edited, scanned again, and the analyses are run on the new graphs        *)
(***************************************************************************)
\* the module names of the three files of the project
EditNames == {<<"x", "y", "z">>, <<"x", "y", "rest">>}

\* the most import statements the files gain
MaxEdges == 3

SourcePath(name) == PathJoin(project_root, name \o ".py")

\* three files without a statement
EditProject(names) ==
    [p \in {SourcePath(names[i]) : i \in 1..Len(names)} |-> Source(<<>>)]

Reversed(xs) == [i \in 1..Len(xs) |-> xs[Len(xs) + 1 - i]]

InitAnalysis ==
    /\ \E names \in EditNames :
        /\ disk = EditProject(names)
        /\ walk \in {[i \in 1..Len(names) |-> SourcePath(names[i])],
                     Reversed([i \in 1..Len(names) |-> SourcePath(names[i])])}
    /\ alias_config = <<>>
    /\ hash_order = <<"f", "g", "fn", "helper">>
    /\ parsed_files = <<>>
    /\ file_graph = EmptyGraph
    /\ function_graph = EmptyGraph
    /\ last_call = [op |-> "init", ok |-> TRUE]
    /\ position = 1
    /\ scan_pc = "none"
    /\ exclude_file = {}
    /\ just_me_file = {}
    /\ hash_seed = 1
    /\ cache = EmptyCache
    /\ now = 0
    /\ served = 0
    /\ request = NoRequest
    /\ response = NoResponse
    /\ scanned_with = [exclude |-> {}, just_me |-> {}]
    /\ requests = <<>>
    /\ NoStore
    /\ NoAnalyzing
    /\ NoTasks

AnalysisFrame ==
    UNCHANGED <<alias_config, hash_order, walk, position, scan_pc, filter_vars, cache,
                now, served, request, response, scanned_with, requests, store_vars,
                task_vars>>

\* the user appends `import <module of target>` to the file source
EditFile(source, target) ==
    /\ edited.fresh
    /\ edited.count < MaxEdges
    /\ disk' = [disk EXCEPT ![source] =
                   Source(Append(@.body,
                       Import(<<StripModuleExt(Relpath(target, project_root))>>)))]
    /\ edited' = [source |-> Relpath(source, project_root),
                  target |-> Relpath(target, project_root),
                  fresh |-> FALSE,
                  before |-> file_graph,
                  count |-> edited.count + 1]
    /\ analysis' = NoAnalysis
    /\ UNCHANGED analyzer_vars
    /\ AnalysisFrame

\* a new analyzer is given every file of the walk and builds both graphs
Analyze ==
    /\ ~edited.fresh
    /\ \E result \in {FreshScan(disk, walk, {}, {}, alias_config, hash_order)} :
        /\ parsed_files' = result.parsed_files
        /\ file_graph' = result.file_graph
        /\ function_graph' = result.function_graph
        /\ last_call' = [op |-> "build_function_graph", ok |-> ~result.raised]
    /\ edited' = [edited EXCEPT !.fresh = TRUE]
    /\ analysis' = NoAnalysis
    /\ UNCHANGED disk
    /\ AnalysisFrame

\* analyzer.detect_circular_dependencies()
DetectCircularDependencies ==
    /\ edited.fresh
    /\ analysis' = [NoAnalysis EXCEPT !.op = "detect_circular_dependencies",
                                      !.cycles = detect_circular_dependencies(file_graph)]
    /\ UNCHANGED <<disk, edited, analyzer_vars>>
    /\ AnalysisFrame

\* analyzer.find_dead_code()
FindDeadCode ==
    /\ edited.fresh
    /\ \E dead \in {find_dead_code(file_graph, function_graph)} :
        analysis' = [NoAnalysis EXCEPT !.op = "find_dead_code",
                                       !.unused_files = dead.unused_files,
                                       !.unused_functions = dead.unused_functions]
    /\ UNCHANGED <<disk, edited, analyzer_vars>>
    /\ AnalysisFrame

NextAnalysis ==
    \/ \E source, target \in DOMAIN disk : EditFile(source, target)
    \/ Analyze
    \/ DetectCircularDependencies
    \/ FindDeadCode

SpecAnalysis == InitAnalysis /\ [][NextAnalysis]_vars

(***************************************************************************)
(* TaskManager (server/services/task_manager.py) and the task routes       *)
(* (server/routes/task_routes.py).  The handler threads of the server, the *)
(* cleanup thread of the manager and the worker thread of each task run    *)
(* interleaved; a step is a statement that reads or writes a task, the     *)
(* table or the lock.                                                      *)
(***************************************************************************)
\* self.max_tasks: the size of the table at which create_task cleans up
max_tasks == 2

\* the most tasks the handlers create
MaxCreated == 3

\* TaskStatus
PENDING == "pending"
RUNNING == "running"
COMPLETED == "completed"
FAILED == "failed"
CANCELLED == "cancelled"

\* the cleanup thread of _start_cleanup_thread
Cleaner == "cleanup_thread"

\* a thread outside every call, with no task at hand
Idle == [at |-> "idle", task |-> 0]

\* TaskInfo.__init__: status pending; aged says that updated_at lies before
\* the cutoff of cleanup_old_tasks
TaskInfo == [status |-> PENDING, aged |-> FALSE]

\* TaskInfo.start
start(task) == [task EXCEPT !.status = RUNNING, !.aged = FALSE]

\* TaskInfo.complete
complete(task) == [task EXCEPT !.status = COMPLETED, !.aged = FALSE]

\* TaskInfo.fail
fail(task) == [task EXCEPT !.status = FAILED, !.aged = FALSE]

\* tasks_to_remove of cleanup_old_tasks
tasks_to_remove(table, infos) ==
    {id \in table : infos[id].status \in {COMPLETED, FAILED, CANCELLED} /\ infos[id].aged}

InitTasks ==
    /\ disk = EmptyMap
    /\ alias_config = <<>>
    /\ hash_order = <<"f", "g", "fn", "helper">>
    /\ parsed_files = <<>>
    /\ file_graph = EmptyGraph
    /\ function_graph = EmptyGraph
    /\ last_call = [op |-> "init", ok |-> TRUE]
    /\ NoServer
    /\ NoStore
    /\ NoAnalyzing
    /\ tasks = {}
    /\ task_infos = <<>>
    /\ _lock = None
    /\ threads = [t \in Handlers \cup {Cleaner} |-> Idle]
    /\ workers = <<>>

TasksFrame ==
    UNCHANGED <<analyzer_vars, input_vars, route_vars, store_vars, analysis_vars>>

\* thread t goes on at `at`, holding task
Goto(t, at, task) == threads' = [threads EXCEPT ![t] = [at |-> at, task |-> task]]

\* start_extraction calls task_manager.create_task
StartExtraction(h) ==
    /\ threads[h].at = "idle"
    /\ Len(task_infos) < MaxCreated
    /\ Goto(h, "create_task", 0)
    /\ UNCHANGED <<tasks, task_infos, _lock, workers>>
    /\ TasksFrame

\* `with self._lock:` of create_task and of cleanup_old_tasks: the thread
\* waits until no thread holds the lock, the thread itself included
Acquire(t) ==
    /\ threads[t].at \in {"create_task", "cleanup_old_tasks"}
    /\ _lock = None
    /\ _lock' = t
    /\ Goto(t, IF threads[t].at = "create_task" THEN "create_locked" ELSE "cleanup_locked",
            0)
    /\ UNCHANGED <<tasks, task_infos, workers>>
    /\ TasksFrame

\* `if len(self.tasks) >= self.max_tasks: self._cleanup_old_tasks()`
CheckCapacity(h) ==
    /\ threads[h].at = "create_locked"
    /\ Goto(h, IF Cardinality(tasks) >= max_tasks THEN "cleanup_old_tasks" ELSE "insert", 0)
    /\ UNCHANGED <<tasks, task_infos, _lock, workers>>
    /\ TasksFrame

\* the rest of create_task: the new TaskInfo goes into the table, and the
\* return leaves the `with` block
Insert(h) ==
    /\ threads[h].at = "insert"
    /\ task_infos' = Append(task_infos, TaskInfo)
    /\ workers' = Append(workers, "none")
    /\ tasks' = tasks \cup {Len(task_infos) + 1}
    /\ _lock' = None
    /\ Goto(h, "created", Len(task_infos) + 1)
    /\ TasksFrame

\* start_extraction starts the worker thread of the task and answers
StartWorker(h) ==
    /\ threads[h].at = "created"
    /\ workers' = [workers EXCEPT ![threads[h].task] = "started"]
    /\ Goto(h, "idle", 0)
    /\ UNCHANGED <<tasks, task_infos, _lock>>
    /\ TasksFrame

\* cleanup_worker wakes up after time.sleep and calls cleanup_old_tasks
WakeUp ==
    /\ threads[Cleaner].at = "idle"
    /\ Goto(Cleaner, "cleanup_old_tasks", 0)
    /\ UNCHANGED <<tasks, task_infos, _lock, workers>>
    /\ TasksFrame

\* the body of cleanup_old_tasks under the lock, and the end of its `with`
\* block; in create_task the caller goes on with the new task
RemoveOld(t) ==
    /\ threads[t].at = "cleanup_locked"
    /\ tasks' = tasks \ tasks_to_remove(tasks, task_infos)
    /\ _lock' = None
    /\ Goto(t, IF t = Cleaner THEN "idle" ELSE "insert", 0)
    /\ UNCHANGED <<task_infos, workers>>
    /\ TasksFrame

\* cancel_task: get_task and `if task_info.status == "pending":`
CancelCheck(h, id) ==
    /\ threads[h].at = "idle"
    /\ id \in tasks
    /\ task_infos[id].status = PENDING
    /\ Goto(h, "cancel_task", id)
    /\ UNCHANGED <<tasks, task_infos, _lock, workers>>
    /\ TasksFrame

\* cancel_task: `task_info.status = "cancelled"`; updated_at is left alone
CancelSet(h) ==
    /\ threads[h].at = "cancel_task"
    /\ task_infos' = [task_infos EXCEPT ![threads[h].task].status = CANCELLED]
    /\ Goto(h, "idle", 0)
    /\ UNCHANGED <<tasks, _lock, workers>>
    /\ TasksFrame

\* run_text_extraction_task: task_info.start()
WorkerStart(id) ==
    /\ workers[id] = "started"
    /\ task_infos' = [task_infos EXCEPT ![id] = start(@)]
    /\ workers' = [workers EXCEPT ![id] = "extracting"]
    /\ UNCHANGED <<tasks, _lock, threads>>
    /\ TasksFrame

\* run_text_extraction_task: task_info.complete(...)
WorkerComplete(id) ==
    /\ workers[id] = "extracting"
    /\ task_infos' = [task_infos EXCEPT ![id] = complete(@)]
    /\ workers' = [workers EXCEPT ![id] = "done"]
    /\ UNCHANGED <<tasks, _lock, threads>>
    /\ TasksFrame

\* run_text_extraction_task: task_info.fail(...)
WorkerFail(id) ==
    /\ workers[id] = "extracting"
    /\ task_infos' = [task_infos EXCEPT ![id] = fail(@)]
    /\ workers' = [workers EXCEPT ![id] = "done"]
    /\ UNCHANGED <<tasks, _lock, threads>>
    /\ TasksFrame

\* max_age_hours pass: every task was last updated before the cutoff
Age ==
    /\ \E id \in 1..Len(task_infos) : ~task_infos[id].aged
    /\ task_infos' = [id \in 1..Len(task_infos) |-> [task_infos[id] EXCEPT !.aged = TRUE]]
    /\ UNCHANGED <<tasks, _lock, threads, workers>>
    /\ TasksFrame

NextTasks ==
    \/ \E h \in Handlers : StartExtraction(h)
    \/ \E t \in Handlers \cup {Cleaner} : Acquire(t)
    \/ \E h \in Handlers : CheckCapacity(h)
    \/ \E h \in Handlers : Insert(h)
    \/ \E h \in Handlers : StartWorker(h)
    \/ WakeUp
    \/ \E t \in Handlers \cup {Cleaner} : RemoveOld(t)
    \/ \E h \in Handlers, id \in 1..MaxCreated : CancelCheck(h, id)
    \/ \E h \in Handlers : CancelSet(h)
    \/ \E id \in 1..Len(workers) : WorkerStart(id)
    \/ \E id \in 1..Len(workers) : WorkerComplete(id)
    \/ \E id \in 1..Len(workers) : WorkerFail(id)
    \/ Age

SpecTasks == InitTasks /\ [][NextTasks]_vars

\* the steps of a thread inside a call of the task manager or of a route
Proceed(t) ==
    \/ CheckCapacity(t)
    \/ Insert(t)
    \/ StartWorker(t)
    \/ RemoveOld(t)
    \/ CancelSet(t)

\* the scheduler runs every thread that can take a step, and a thread that
\* waits for the lock gets it when the lock is free again and again: the
\* cleanup thread sleeps cleanup_interval seconds between two of its holds
SpecTasksFair ==
    /\ SpecTasks
    /\ \A t \in Handlers \cup {Cleaner} : WF_vars(Proceed(t)) /\ SF_vars(Acquire(t))

(***************************************************************************)
(* Properties of the analyzer                                              *)
(***************************************************************************)
\* the ids (paths from the root) of the files in the parsed-file set
ParsedIds == {Relpath(parsed_files[i].filepath, project_root) : i \in 1..Len(parsed_files)}

\* the file graph is the one build_file_graph just returned for parsed_files
FileGraphFresh == last_call.op = "build_file_graph" /\ last_call.ok

\* the (source, target) pairs of the file graph's edges, in order
EdgePairs == [k \in 1..Len(file_graph.edges) |->
                 <<file_graph.edges[k].source, file_graph.edges[k].target>>]

\* C4: with a/util.py and a/main.py parsed, main.py's only import being
\* `from .util import f`, build_file_graph yields exactly one edge, from
\* a/main.py to a/util.py.
C4_RelativeImportEdge ==
    (/\ \E b \in BOOLEAN : disk = PackageProject(b)
     /\ ParsedIds = {"a/util.py", "a/main.py"}
     /\ FileGraphFresh)
    => EdgePairs = <<(<<"a/main.py", "a/util.py">>)>>

\* C5: with X.py and main.py parsed, main.py's only import being
\* `from X import helper`, build_file_graph returns two nodes and exactly one
\* edge, from main.py to X.py, for every module name X.
C5_AbsoluteImportEdge ==
    \A X \in ModuleNames :
        (/\ disk = PairProject(X)
         /\ ParsedIds = {X \o ".py", "main.py"}
         /\ FileGraphFresh)
        => /\ Len(file_graph.nodes) = 2
           /\ EdgePairs = <<(<<"main.py", X \o ".py">>)>>

\* C6: every node's in_degree is the number of edges that target its id and
\* its out_degree the number of edges that leave it; for hub.py and n
\* importers, all parsed, build_file_graph reports n + 1 nodes and exactly n
\* edges, all targeting hub.py, and hub.py has in_degree n.
C6_Degrees ==
    /\ \A i \in 1..Len(file_graph.nodes) :
        /\ file_graph.nodes[i].in_degree =
             Cardinality({k \in 1..Len(file_graph.edges) :
                            file_graph.edges[k].target = file_graph.nodes[i].id})
        /\ file_graph.nodes[i].out_degree =
             Cardinality({k \in 1..Len(file_graph.edges) :
                            file_graph.edges[k].source = file_graph.nodes[i].id})
    /\ \A n \in 0..MaxImporters :
        (/\ disk = HubProject(n)
         /\ Len(parsed_files) = n + 1
         /\ last_call.op = "build_file_graph")
        => /\ Len(file_graph.nodes) = n + 1
           /\ Len(file_graph.edges) = n
           /\ \A k \in 1..Len(file_graph.edges) : file_graph.edges[k].target = "hub.py"
           /\ \E i \in 1..Len(file_graph.nodes) :
                /\ file_graph.nodes[i].id = "hub.py"
                /\ file_graph.nodes[i].in_degree = n

\* C7: every edge of the file graph has a source and a target that are files
\* of the parsed-file set.
C7_EdgeEndpointsParsed ==
    \A k \in 1..Len(file_graph.edges) :
        /\ file_graph.edges[k].source \in ParsedIds
        /\ file_graph.edges[k].target \in ParsedIds

\* C7 witness: `import a` resolves to a/__init__.py, which is on disk but not
\* parsed, so the graph just built has no edge from top.py
C7_Witness ==
    /\ disk = PackageProject(TRUE)
    /\ ParsedIds = {"a/util.py", "top.py"}
    /\ FileGraphFresh
    /\ _resolve_import("a", "/r/top.py",
                       _build_file_module_map(parsed_files, DOMAIN disk),
                       alias_config, Range(Filepaths(parsed_files)), DOMAIN disk)
         = "/r/a/__init__.py"
    /\ file_graph.edges = <<>>

\* no two places of a sequence of nodes hold the same id
UniqueIds(nodes) ==
    \A i, j \in 1..Len(nodes) : nodes[i].id = nodes[j].id => i = j

\* C8: no two nodes of the file graph share an id, and no two nodes of the
\* function graph share an id.
C8_UniqueNodeIds == UniqueIds(file_graph.nodes) /\ UniqueIds(function_graph.nodes)

\* C9: _resolve_import never raises, so build_file_graph always completes.
C9_ResolveNeverRaises == last_call.op = "build_file_graph" => last_call.ok

\* the function graph holds a call edge from the node of the function or
\* method reg to a node of short name callee
HasCallEdge(reg, callee) ==
    \E k \in 1..Len(function_graph.edges) :
        /\ function_graph.edges[k].source = reg.file \o "::" \o reg.name
        /\ EndsWith(function_graph.edges[k].target, "::" \o callee)
        /\ function_graph.edges[k].type = "call"

\* C20: after build_function_graph, for every function and every class method
\* F of the parsed files and every name in the callee set of F that is the
\* short name of a function or method defined in the project, the function
\* graph holds a call edge whose source is the node id of F.
C20_CallEdges ==
    last_call.op = "build_function_graph" =>
        \A i \in 1..Len(Registered(parsed_files)) :
            \A j \in 1..Len(Registered(parsed_files)[i].calls) :
                (\E k \in 1..Len(Registered(parsed_files)) :
                    Registered(parsed_files)[k].short
                        = Registered(parsed_files)[i].calls[j])
                => HasCallEdge(Registered(parsed_files)[i],
                               Registered(parsed_files)[i].calls[j])

\* the place in the registrations of the first definition of short name n
FirstRegistered(regs, n) == Min({i \in 1..Len(regs) : regs[i].short = n})

\* the files that define a function or method of short name n
DefiningFiles(regs, n) == {regs[i].file : i \in {j \in 1..Len(regs) : regs[j].short = n}}

\* C21: when two or more parsed files define a function or method of short
\* name n, every call edge of build_function_graph for callee n targets the
\* definition registered first: the one of the file added earliest.
C21_FirstDefinitionWins ==
    last_call.op = "build_function_graph" =>
        \A k \in 1..Len(function_graph.edges) :
            \A i \in 1..Len(Registered(parsed_files)) :
                (/\ Cardinality(DefiningFiles(Registered(parsed_files),
                                              Registered(parsed_files)[i].short)) >= 2
                 /\ EndsWith(function_graph.edges[k].target,
                             "::" \o Registered(parsed_files)[i].short))
                => StartsWith(function_graph.edges[k].target,
                       Registered(parsed_files)[
                           FirstRegistered(Registered(parsed_files),
                                           Registered(parsed_files)[i].short)].file
                       \o "::")

\* the ids of the nodes of the function graph
FunctionNodeIds == {function_graph.nodes[i].id : i \in 1..Len(function_graph.nodes)}

\* the node ids of the definitions that func_map holds for a callee of some
\* module-level function: the functions and methods that are called
CalledIds ==
    {FuncMapEntry(Registered(parsed_files), c.call).file \o "::"
         \o FuncMapEntry(Registered(parsed_files), c.call).name :
     c \in Range(KnownCalls(Registered(parsed_files)))}

\* C27: in the graph of build_function_graph the source and the target of
\* every call edge are ids of nodes of that graph, also when the callee is a
\* class method; so no function or method that a call edge targets is in
\* the unused_functions of find_dead_code.
C27_EdgeEndsAreNodes ==
    last_call.op = "build_function_graph" =>
        /\ \A k \in 1..Len(function_graph.edges) :
              /\ function_graph.edges[k].source \in FunctionNodeIds
              /\ function_graph.edges[k].target \in FunctionNodeIds
        /\ CalledIds \cap find_dead_code(file_graph, function_graph).unused_functions = {}

\* C24: extraction is deterministic: the record of a file is the same in
\* every run of the program, the order of the callee list of each function
\* included.
C24_ExtractionDeterministic ==
    \A i \in 1..Len(parsed_files) :
        \A order \in HashOrders :
            parse_file(parsed_files[i].filepath, disk[parsed_files[i].filepath], order)
                = parsed_files[i]

\* the module-level definitions of name n of a source, async or not
ModuleLevelDefs(body, n, async) ==
    {k \in 1..Len(body) : body[k].t = "def" /\ body[k].name = n /\ body[k].async = async}

\* the records of name n in a functions list, is_async or not
FunctionRecords(functions, n, async) ==
    {k \in 1..Len(functions) : functions[k].name = n /\ functions[k].is_async = async}

\* the names defined in the body of a class at module level
MethodNames(body) ==
    UNION {{body[k].body[m].name : m \in 1..Len(body[k].body)} :
           k \in {j \in 1..Len(body) : body[j].t = "class"}}

\* C25: every module-level `def` and `async def` of a Python file has exactly
\* one record in the functions list of its parsed file, with is_async true
\* exactly for `async def`; a function of a class body is in no record of the
\* functions list.
C25_AsyncFunctions ==
    \A i \in 1..Len(parsed_files) :
        parsed_files[i].language = "python" =>
            /\ \A k \in 1..Len(disk[parsed_files[i].filepath].body) :
                  disk[parsed_files[i].filepath].body[k].t = "def" =>
                      \A async \in BOOLEAN :
                          Cardinality(FunctionRecords(parsed_files[i].functions,
                              disk[parsed_files[i].filepath].body[k].name, async))
                          = Cardinality(ModuleLevelDefs(disk[parsed_files[i].filepath].body,
                              disk[parsed_files[i].filepath].body[k].name, async))
            /\ \A n \in MethodNames(disk[parsed_files[i].filepath].body) :
                  (\A async \in BOOLEAN :
                      ModuleLevelDefs(disk[parsed_files[i].filepath].body, n, async) = {})
                  => \A async \in BOOLEAN :
                        FunctionRecords(parsed_files[i].functions, n, async) = {}

\* the file graph holds an edge for the import statement site, and every such
\* edge ends at the file target
ImportGoesTo(site, target) ==
    /\ \E k \in 1..Len(file_graph.edges) :
        /\ file_graph.edges[k].source = Relpath(site.filepath, project_root)
        /\ file_graph.edges[k].module = site.imp.module
    /\ \A k \in 1..Len(file_graph.edges) :
        (/\ file_graph.edges[k].source = Relpath(site.filepath, project_root)
         /\ file_graph.edges[k].module = site.imp.module)
        => file_graph.edges[k].target = Relpath(target, project_root)

\* a string without its leading separators
RECURSIVE LStripSep(_)
LStripSep(s) == IF StartsWith(s, Sep) THEN LStripSep(DropFirst(s, 1)) ELSE s

\* the parsed file that module names under one template of an alias: the
\* rest of the module after the alias prefix put in the place of the
\* template's wildcard, with an extension or as a directory with an index
\* file; None when there is none
TemplateMatch(module, alias, template) ==
    FirstParsed(
        ExtCandidates(
            PathJoin3(project_root, Replace(template, "/*", ""),
                      LStripSep(DropFirst(module, Len(Replace(alias, "/*", ""))))),
            <<".js", ".jsx", ".ts", ".tsx", ".json">>),
        Range(Filepaths(parsed_files)), DOMAIN disk)

\* C22: alias resolution tries every template: when an import string starts
\* with the prefix of a configured alias and some template of the alias, with
\* an extension or a directory index file, names a parsed file, the import is
\* resolved to the file of the first such template in template order, also
\* when it is not the last template.
C22_EveryTemplateTried ==
    FileGraphFresh =>
        \A i \in 1..Len(ImportSites(parsed_files)) :
            \A a \in 1..Len(alias_config) :
                (/\ StartsWith(ImportSites(parsed_files)[i].imp.module,
                               Replace(alias_config[a].alias, "/*", ""))
                 /\ \A b \in 1..(a - 1) :
                        ~StartsWith(ImportSites(parsed_files)[i].imp.module,
                                    Replace(alias_config[b].alias, "/*", "")))
                => \A t \in 1..Len(alias_config[a].paths) :
                      (/\ TemplateMatch(ImportSites(parsed_files)[i].imp.module,
                              alias_config[a].alias, alias_config[a].paths[t]) # None
                       /\ \A u \in 1..(t - 1) :
                              TemplateMatch(ImportSites(parsed_files)[i].imp.module,
                                  alias_config[a].alias, alias_config[a].paths[u]) = None)
                      => ImportGoesTo(ImportSites(parsed_files)[i],
                             TemplateMatch(ImportSites(parsed_files)[i].imp.module,
                                 alias_config[a].alias, alias_config[a].paths[t]))

\* the package of a file: the directories from the root to the file, none for
\* a file in the root
PackageOf(filepath) ==
    IF Relpath(Dirname(filepath), project_root) = "." THEN <<>>
    ELSE Split(Relpath(Dirname(filepath), project_root), Sep)

\* the module p1...p(n-k+1).m for the package p1...pn, k dots and the name m
EnclosingModule(package, k, m) ==
    Join(Append(SubSeq(package, 1, Len(package) - k + 1), m), ".")

\* C23: an import string of k >= 1 leading dots and a name m, in a file whose
\* package p1...pn has n >= k, is looked up in the module map as
\* p1...p(n-k+1).m: when the map holds that module, the import is resolved to
\* its file.
C23_LeadingDots ==
    FileGraphFresh =>
        \A i \in 1..Len(ImportSites(parsed_files)) :
            \A k \in 1..Len(PackageOf(ImportSites(parsed_files)[i].filepath)) :
                (/\ LeadingDots(ImportSites(parsed_files)[i].imp.module) = k
                 /\ Len(ImportSites(parsed_files)[i].imp.module) > k
                 /\ EnclosingModule(PackageOf(ImportSites(parsed_files)[i].filepath), k,
                        DropFirst(ImportSites(parsed_files)[i].imp.module, k))
                    \in DOMAIN _build_file_module_map(parsed_files, DOMAIN disk))
                => ImportGoesTo(ImportSites(parsed_files)[i],
                       _build_file_module_map(parsed_files, DOMAIN disk)[
                           EnclosingModule(PackageOf(ImportSites(parsed_files)[i].filepath), k,
                               DropFirst(ImportSites(parsed_files)[i].imp.module, k))])

\* the dependencies get_file_details answers for a parsed file of the cached
\* project
DependenciesOf(filepath) ==
    FileDetailsResponse(load_parsed_files(cache), filepath, DOMAIN disk).body.dependencies

\* C26: the details of a file agree with the graph: the imports list that
\* get_file_details returns for a file of a cached project holds the targets
\* of the edges that leave the file, and the imported_by list the sources of
\* the edges that reach it, in the file graph the scan stored and get_graph
\* serves from the same cache; and B is among the imports of A exactly when A
\* is among the imported_by of B.
C26_DetailsAgree ==
    (request.op = "get_file_details" /\ response.code = 200) =>
        /\ response.body.dependencies
            = get_file_dependencies(GraphResponse(load_dependency_graph(cache)).body.edges,
                                    response.body.filepath)
        /\ \A A, B \in Range(Filepaths(load_parsed_files(cache).data)) :
            Relpath(B, project_root) \in Range(DependenciesOf(A).imports)
            <=> Relpath(A, project_root) \in Range(DependenciesOf(B).imported_by)

\* C29: create_task always returns: from every state in which a handler
\* thread has called create_task, with the table below or at max_tasks
\* entries and whatever the cleanup thread and the other handler do, the
\* thread comes to the return with a new pending task in the table under an
\* id no other task has, and does not hold the lock.
C29_CreateReturns ==
    \A h \in Handlers :
        (threads[h].at = "create_task")
        ~> (/\ threads[h].at = "created"
            /\ _lock # h
            /\ threads[h].task \in tasks
            /\ task_infos[threads[h].task].status = PENDING
            /\ \A g \in Handlers \ {h} :
                  threads[g].at = "created" => threads[g].task # threads[h].task)

\* the moves of a task's status
Lifecycle ==
    {<<PENDING, RUNNING>>, <<RUNNING, COMPLETED>>, <<RUNNING, FAILED>>,
     <<PENDING, CANCELLED>>}

\* C30: the status of a task is a one-way lifecycle: every step leaves the
\* status of every task as it is or moves it pending -> running, running ->
\* completed, running -> failed or pending -> cancelled; so a completed,
\* failed or cancelled task keeps its status, and a task that cancel_task
\* marked cancelled is not made running or completed by its worker thread.
C30_OneWayLifecycle ==
    [][\A id \in 1..Len(task_infos) :
          \/ task_infos'[id].status = task_infos[id].status
          \/ <<task_infos[id].status, task_infos'[id].status>> \in Lifecycle]_vars

(***************************************************************************)
(* Properties of a scan                                                    *)
(***************************************************************************)
\* the files of the walk whose extraction gives a record
Extracted ==
    {p \in Range(walk) :
        /\ ReachesParser(Dirname(p), Basename(p), exclude_file, just_me_file)
        /\ parse_file(p, disk[p], hash_order) # NoRecord}

\* the scan has begun to build its graphs
GraphsStarted == scan_pc \notin {"none", "walk"}

\* the ids of the nodes of the file graph
FileNodeIds == {file_graph.nodes[i].id : i \in 1..Len(file_graph.nodes)}

\* C3: graph building starts only after every file of the walk has been
\* extracted and added or skipped, no file is added to the parsed set once
\* it has started, and the file graph is built from every extracted file.
C3_Barrier ==
    /\ [](GraphsStarted =>
            /\ position > Len(walk)
            /\ Range(Filepaths(parsed_files)) = Extracted)
    /\ []((GraphsStarted /\ last_call.ok) =>
            FileNodeIds = {Relpath(p, project_root) : p \in Extracted})
    /\ [][GraphsStarted => parsed_files' = parsed_files]_vars

\* C3 witness: a scan that skipped files has built both graphs from the two
\* files it extracted
C3_Witness ==
    /\ scan_pc = "save_parsed_files"
    /\ Len(file_graph.nodes) = 2
    /\ Len(file_graph.edges) = 1
    /\ walk[1] = "/r/bad.py"
    /\ walk[Len(walk)] = "/r/good.py"

\* C10: a scan of a walk with unparsable files ends with status success and
\* has stored exactly the files whose extraction gave a record, wherever the
\* unparsable files are in the walk.
C10_BadFilesSkipped ==
    scan_pc = "done" =>
        /\ response.status = "success"
        /\ load_parsed_files(cache).exists
        /\ Range(Filepaths(load_parsed_files(cache).data)) = Extracted

(***************************************************************************)
(* Properties of the cache                                                 *)
(***************************************************************************)
\* C1: a scan request is answered from the cache only if it set use_cache
\* and not force_refresh, the project's metadata exists with an age below the
\* ceiling, and both stored fingerprints are those of the current pattern
\* sets; so a request whose filter sets differ from those of the last stored
\* fresh scan is not answered from the cache.
C1_CacheHitOnlyIf ==
    [][(served' # served /\ request'.op = "scan_project" /\ response'.cached) =>
         /\ request'.use_cache
         /\ ~request'.force_refresh
         /\ load_metadata(cache).exists
         /\ now - load_metadata(cache).last_scan < max_age_hours
         /\ load_metadata(cache).exclude_patterns_hash = Fingerprint(exclude_file, hash_seed)
         /\ load_metadata(cache).just_me_patterns_hash = Fingerprint(just_me_file, hash_seed)
         /\ scanned_with = [exclude |-> exclude_file, just_me |-> just_me_file]]_vars

\* C1 witness: half a day after a fresh scan made under a filter, a scan
\* request is answered from the cache
C1_Witness ==
    /\ request.op = "scan_project"
    /\ response.cached
    /\ now - load_metadata(cache).last_scan = 12
    /\ exclude_file = {"good"}

\* C2: no request reads or writes the cache documents of a project while a
\* scan of that project is between its first and its last cache write, so no
\* request holds a parsed-files document and a graph document that two
\* different scans wrote.
C2_NoMixedDocuments ==
    \A h \in DOMAIN requests :
        (requests[h].cached_files.exists /\ requests[h].cached_graph.exists)
        => requests[h].cached_files.writer = requests[h].cached_graph.writer

(***************************************************************************)
(* Properties of the cache manager                                         *)
(***************************************************************************)
\* the documents of a project directory as the loads return them
Loads(c) ==
    [files |-> load_parsed_files(c), dependencies |-> load_dependency_graph(c),
     metadata |-> load_metadata(c)]

\* the load that has just returned read a document a save wrote and nothing
\* touched since
ReadIntact(slot) ==
    ProjectCache(cache_dir, store_call.project)[slot].writer > 0

\* the slot a save call writes
SlotOf(op) ==
    IF op = "save_parsed_files" THEN "files"
    ELSE IF op = "save_dependency_graph" THEN "dependencies" ELSE "metadata"

\* C13: load_parsed_files after save_parsed_files(D) returns D, and
\* load_dependency_graph after save_dependency_graph(G) returns G, for every
\* project key, when no save of that slot and no clear_cache of that project
\* came in between; and a save changes no other slot of that project and no
\* slot of another project, so what their loads return stays the same.
C13_RoundTrip ==
    /\ [](store_call.op = "load_parsed_files" /\ ReadIntact("files") =>
            /\ store_call.value.exists
            /\ store_call.value.data =
                 scans[ProjectCache(cache_dir, store_call.project).files.writer].parsed_files)
    /\ [](store_call.op = "load_dependency_graph" /\ ReadIntact("dependencies") =>
            /\ store_call.value.exists
            /\ store_call.value.file_graph =
                 scans[ProjectCache(cache_dir, store_call.project).dependencies.writer].file_graph
            /\ store_call.value.function_graph =
                 scans[ProjectCache(cache_dir, store_call.project).dependencies.writer].function_graph)
    /\ [][store_call'.op \in {"save_parsed_files", "save_dependency_graph", "save_metadata"}
          /\ store_call'.count # store_call.count =>
             \A q \in StorePaths, slot \in {"files", "dependencies", "metadata"} :
                 (q # store_call'.project \/ slot # SlotOf(store_call'.op)) =>
                     ProjectCache(cache_dir', q)[slot] = ProjectCache(cache_dir, q)[slot]]_vars

\* C13 witness: the parsed files of the flat project come back from the
\* first project's directory while the second project holds the empty scan
C13_Witness ==
    /\ store_call.op = "load_parsed_files"
    /\ store_call.project = "/r"
    /\ store_call.value.exists
    /\ Len(store_call.value.data) = 2
    /\ ProjectCache(cache_dir, "/s").files.writer = 2

\* C14: clear_cache(project) leaves that project with no document (the three
\* loads miss and is_cache_valid is false) and every document of every other
\* project as it was; clear_cache() leaves every project with none.
C14_ClearCache ==
    [][store_call'.op = "clear_cache" /\ store_call'.count # store_call.count =>
         \A q \in StorePaths :
            IF store_call'.project \in {q, None}
            THEN /\ Loads(ProjectCache(cache_dir', q))
                      = [files |-> NoFiles, dependencies |-> NoDependencies,
                         metadata |-> NoMetadata]
                 /\ ~is_cache_valid(ProjectCache(cache_dir', q), now)
            ELSE ProjectCache(cache_dir', q) = ProjectCache(cache_dir, q)]_vars

\* C14 witness: the first project is cleared after two saves, and the second
\* project still has the parsed files saved for it
C14_Witness ==
    /\ store_call.op = "clear_cache"
    /\ store_call.project = "/r"
    /\ store_call.count = 3
    /\ _get_project_cache_dir("/r") \notin DOMAIN cache_dir
    /\ load_parsed_files(ProjectCache(cache_dir, "/s")).exists

\* C11: a missing, truncated or invalid cache document is a miss, never a
\* failure: the load of a document that has just been removed, cut short or
\* overwritten returns the miss value, and every scan_project request with
\* use_cache is answered with success, whatever states the three documents of
\* the project are in.
C11_DamageIsMiss ==
    /\ [][\A slot \in DOMAIN EmptyCache :
            (served' = served /\ cache'[slot] # cache[slot])
                => ~Loads(cache')[slot].exists]_vars
    /\ [][(served' # served /\ request'.op = "scan_project" /\ request'.use_cache)
            => response'.status = "success"]_vars

\* the three documents are those of one completed fresh scan
CompletedScan(c) ==
    /\ c.files.writer > 0
    /\ c.dependencies.writer = c.files.writer
    /\ c.metadata.writer = c.files.writer

\* a scan_project request has just been answered
ScanAnswered == served' # served /\ request'.op = "scan_project"

\* C12: a scan_project request with use_cache and without force_refresh that
\* arrives less than max_age_hours after a completed fresh scan of the project
\* made with the filter patterns of now is answered from the cache, with the
\* stored file count, and leaves the three cache documents as they are;
\* also when the scan found no parsable file.
C12_RepeatFromCache ==
    [][(/\ ScanAnswered
        /\ request'.use_cache
        /\ ~request'.force_refresh
        /\ CompletedScan(cache)
        /\ now - load_metadata(cache).last_scan < max_age_hours
        /\ scanned_with = [exclude |-> exclude_file, just_me |-> just_me_file])
       => /\ response'.status = "success"
          /\ response'.cached
          /\ response'.file_count = load_metadata(cache).file_count
          /\ cache' = cache]_vars

(***************************************************************************)
(* Properties of the analyses                                              *)
(***************************************************************************)
\* the (source, target) pairs of the import edges of a graph
EdgeSet(g) == {<<g.edges[k].source, g.edges[k].target>> : k \in 1..Len(g.edges)}

\* the nodes reached from a along 1..n edges of E
RECURSIVE ReachedWithin(_, _, _)
ReachedWithin(E, a, n) ==
    IF n = 0 THEN {}
    ELSE {e[2] : e \in {d \in E : d[1] = a \/ d[1] \in ReachedWithin(E, a, n - 1)}}

Reaches(g, a, b) == b \in ReachedWithin(EdgeSet(g), a, Cardinality(NodeIdsOf(g)))

\* a and b lie in one strongly connected component
SameComponent(g, a, b) == a = b \/ (Reaches(g, a, b) /\ Reaches(g, b, a))

\* the directed cycles that pass no node twice, each as the sequence of its nodes
SimpleCycles(g) ==
    {c \in UNION {[1..n -> NodeIdsOf(g)] : n \in 1..Cardinality(NodeIdsOf(g))} :
        /\ \A j, k \in 1..Len(c) : c[j] = c[k] => j = k
        /\ \A j \in 1..Len(c) : <<c[j], c[(j % Len(c)) + 1]>> \in EdgeSet(g)}

\* detect_circular_dependencies has just returned
Detected == analysis.op = "detect_circular_dependencies"

\* C15: detect_circular_dependencies returns a non-empty list exactly when the
\* import edges of the file graph contain a directed cycle (so an acyclic
\* graph gives the empty list), and when the edges are the chain
\* X -> Y -> Z -> X some reported cycle contains X, Y and Z.
C15_CyclesDetected ==
    Detected =>
        /\ (analysis.cycles # <<>>)
              <=> (\E a \in NodeIdsOf(file_graph) : Reaches(file_graph, a, a))
        /\ \A X, Y, Z \in NodeIdsOf(file_graph) :
              (Cardinality({X, Y, Z}) = 3
               /\ EdgeSet(file_graph) = {<<X, Y>>, <<Y, Z>>, <<Z, X>>})
              => \E k \in 1..Len(analysis.cycles) :
                    {X, Y, Z} \subseteq Range(analysis.cycles[k])

C15_Witness ==
    /\ Detected
    /\ EdgeSet(file_graph) = {<<"x.py", "y.py">>, <<"y.py", "z.py">>, <<"z.py", "x.py">>}
    /\ Len(analysis.cycles) = 1
    /\ Range(analysis.cycles[1]) = {"x.py", "y.py", "z.py"}

\* C16: for every two directed cycles of the file graph that share no node,
\* detect_circular_dependencies reports a cycle inside the strongly connected
\* component of the one and a cycle inside that of the other, in whatever
\* order the search visits the nodes and whatever edges join the components.
C16_DisjointCycles ==
    Detected =>
        \A c1, c2 \in SimpleCycles(file_graph) :
            Range(c1) \cap Range(c2) = {}
            => \A c \in {c1, c2} :
                  \E k \in 1..Len(analysis.cycles) :
                      \A n \in Range(analysis.cycles[k]) :
                          SameComponent(file_graph, n, c[1])

\* two cycles in different components, the second reached from the first by
\* an edge, both reported
C16_Witness ==
    /\ Detected
    /\ \E c1, c2 \in SimpleCycles(file_graph) :
        /\ Range(c1) \cap Range(c2) = {}
        /\ ~SameComponent(file_graph, c1[1], c2[1])
        /\ \E a \in Range(c1), b \in Range(c2) : <<a, b>> \in EdgeSet(file_graph)
    /\ Len(analysis.cycles) >= 2

\* a closed path of the graph g: it ends where it starts, each file is
\* followed by one it has an edge to, and no file but the first occurs twice
ClosedPath(g, c) ==
    /\ Len(c) >= 2
    /\ c[1] = c[Len(c)]
    /\ \A i \in 1..(Len(c) - 1) : <<c[i], c[i + 1]>> \in EdgeSet(g)
    /\ \A i, j \in 1..(Len(c) - 1) : c[i] = c[j] => i = j

\* C28: every cycle detect_circular_dependencies reports is a closed path of
\* the file graph: its first and last entries are the same file, every two
\* consecutive entries are an edge of the file graph, and no other file
\* occurs twice in it.
C28_CyclesAreClosedPaths ==
    Detected =>
        \A k \in 1..Len(analysis.cycles) : ClosedPath(file_graph, analysis.cycles[k])

\* a cycle found at the end of a path that starts outside it: the reported
\* list is shorter than the path of the search
C28_Witness ==
    /\ Detected
    /\ \E k \in 1..Len(analysis.cycles) :
        /\ Len(analysis.cycles[k]) = 3
        /\ \E a \in NodeIdsOf(file_graph) :
            /\ a \notin Range(analysis.cycles[k])
            /\ <<a, analysis.cycles[k][1]>> \in EdgeSet(file_graph)
            /\ ~Reaches(file_graph, analysis.cycles[k][1], a)
    /\ \A k \in 1..Len(analysis.cycles) : ClosedPath(file_graph, analysis.cycles[k])

\* the parsed file of id source holds an import statement of the module of
\* the parsed file of id target
ImportsModuleOf(source, target) ==
    \E j, k \in 1..Len(parsed_files) :
        /\ Relpath(parsed_files[j].filepath, project_root) = source
        /\ Relpath(parsed_files[k].filepath, project_root) = target
        /\ \E m \in 1..Len(parsed_files[j].imports) :
              parsed_files[j].imports[m].module = StripModuleExt(target)

\* C17: find_dead_code, called after build_file_graph, reports as unused_files
\* exactly the file nodes that no edge targets: a file without importers and
\* without imports is reported, and a file that another parsed file imports is
\* not.
C17_UnusedFiles ==
    (analysis.op = "find_dead_code" /\ edited.fresh) =>
        /\ analysis.unused_files
              = {n \in NodeIdsOf(file_graph) :
                    \A e \in EdgeSet(file_graph) : e[2] # n}
        /\ \A n \in NodeIdsOf(file_graph) :
              /\ (\A m \in NodeIdsOf(file_graph) :
                      ~ImportsModuleOf(m, n) /\ ~ImportsModuleOf(n, m))
                 => n \in analysis.unused_files
              /\ (\E m \in NodeIdsOf(file_graph) \ {n} : ImportsModuleOf(m, n))
                 => n \notin analysis.unused_files

\* the node of id n in graph g
NodeOf(g, n) == g.nodes[CHOOSE i \in 1..Len(g.nodes) : g.nodes[i].id = n]

\* the edges from a to b, counted
EdgeCount(g, a, b) ==
    Cardinality({k \in 1..Len(g.edges) : g.edges[k].source = a /\ g.edges[k].target = b})

\* graph h is graph g with one more edge from source to target
AddsOneEdge(g, h, source, target) ==
    /\ NodeIdsOf(h) = NodeIdsOf(g)
    /\ \A a, b \in NodeIdsOf(g) :
          EdgeCount(h, a, b)
              = EdgeCount(g, a, b) + (IF a = source /\ b = target THEN 1 ELSE 0)

\* C18: when the file graph gains one import edge into a file T and no other
\* edge changes, the in_degree of T does not fall and the centrality of T does
\* not fall.
C18_CentralityMonotone ==
    (/\ edited.fresh
     /\ edited.target # None
     /\ AddsOneEdge(edited.before, file_graph, edited.source, edited.target))
    => /\ NodeOf(file_graph, edited.target).in_degree
             >= NodeOf(edited.before, edited.target).in_degree
       /\ NodeOf(file_graph, edited.target).cent_num
             * NodeOf(edited.before, edited.target).cent_den
          >= NodeOf(edited.before, edited.target).cent_num
             * NodeOf(file_graph, edited.target).cent_den

\* the in- and out-degree of node n counted over the edges of g
InCount(g, n) == Cardinality({k \in 1..Len(g.edges) : g.edges[k].target = n})
OutCount(g, n) == Cardinality({k \in 1..Len(g.edges) : g.edges[k].source = n})

\* the largest degree over the nodes of g, 1 for a graph without edges
LargestIn(g) ==
    IF g.edges = <<>> THEN 1 ELSE Max({InCount(g, n) : n \in NodeIdsOf(g)})
LargestOut(g) ==
    IF g.edges = <<>> THEN 1 ELSE Max({OutCount(g, n) : n \in NodeIdsOf(g)})

\* C19: the centrality of every node of the file graph is
\* 0.7 * in_degree / max_in + 0.3 * out_degree / max_out, max_in and max_out
\* being the largest in- and out-degree, 1 in a graph without edges; no
\* divisor is zero, the centrality lies between 0 and 1, and it is 0 for every
\* node of a graph without edges.
C19_CentralityFormula ==
    \A i \in 1..Len(file_graph.nodes) :
        /\ file_graph.nodes[i].cent_den # 0
        /\ LargestIn(file_graph) # 0
        /\ LargestOut(file_graph) # 0
        /\ file_graph.nodes[i].in_degree = InCount(file_graph, file_graph.nodes[i].id)
        /\ file_graph.nodes[i].out_degree = OutCount(file_graph, file_graph.nodes[i].id)
        /\ file_graph.nodes[i].cent_num * 10 * LargestIn(file_graph) * LargestOut(file_graph)
              = (7 * file_graph.nodes[i].in_degree * LargestOut(file_graph)
                 + 3 * file_graph.nodes[i].out_degree * LargestIn(file_graph))
                * file_graph.nodes[i].cent_den
        /\ 0 <= file_graph.nodes[i].cent_num
        /\ file_graph.nodes[i].cent_num <= file_graph.nodes[i].cent_den
        /\ file_graph.edges = <<>> => file_graph.nodes[i].cent_num = 0

\* a node imported twice and importing once, in a graph whose largest
\* out-degree is 2: centrality 0.7 + 0.15
C19_Witness ==
    \E i \in 1..Len(file_graph.nodes) :
        /\ file_graph.nodes[i].in_degree = 2
        /\ file_graph.nodes[i].out_degree = 1
        /\ LargestOut(file_graph) = 2
        /\ file_graph.nodes[i].cent_num * 20 = 17 * file_graph.nodes[i].cent_den

====
